---------------------------- MODULE Spec2Model ----------------------------
(***************************************************************************)
(* PackingLine: credential verification (models/user_model.py) and label   *)
(* record extraction (utils/validators.py).                                *)
(*                                                                         *)
(* Text is a sequence of Unicode code points, bytes are a sequence of      *)
(* integers 0..255.  A Python call that may raise is modelled by its       *)
(* outcome: Return(v) or Raise(e).  None is NoneVal.                       *)
(***************************************************************************)
EXTENDS Integers, Sequences, FiniteSets, TLC

VARIABLES
    \* --- SzvDecrypt.decoding_line, the XOR loop run step by step ---
    encoded_data,   \* the byte sequence handed to the loop
    decoded_data,   \* bytearray(len(encoded_data)), filled index by index
    int_xor,        \* the rolling key
    xor_i,          \* the loop index i (0-based, as in the code)
    xor_pass,       \* 1: first application, 2: the loop run again on its own output
    xor_orig,       \* the byte sequence the first pass started from
    \* --- SzvDecrypt.check_login ---
    szv_plain,      \* what the credential file was produced from (environment)
    szv_file,       \* the credential file: NoFile, or its lines of hex text
    value_prefix,   \* models.user_model.value_prefix, the module-level global
    decrypter,      \* SzvDecrypt instances: value_surname, value_name, value_prefix
    login,          \* per instance: the last check_login call and what it left
    file_outcome,   \* the outcome of the last direct decoding_file() call
    \* --- Validator on the lines of a .lbl file ---
    lbl_lines,      \* the label line set
    serial,         \* the serial number the validator was called with
    val_call,       \* which Validator method ran last
    val_result,     \* what it left: value returned, text logged, dialog, input reset
    header,         \* the header handed to validate_and_inject_balice
    record,         \* the record handed to validate_and_inject_balice
    reports,        \* the files under reports_path: their paths and what they hold
    \* --- PrintController.print_button_click ---
    config,         \* self.config: the ConfigParser object and what config.ini holds
    product_name,   \* self.print_window.product_name
    click,          \* the last click on Print: what the handler left
    \* --- WindowStackManager, WindowEffectsManager.fade_out ---
    stack,          \* self._stack
    visible,        \* the windows that are shown
    fading,         \* the windows whose fade-out animation is running
    gone,           \* the windows deleted after their fade-out
    pushes,         \* every window pushed so far, in the order of the calls
    nav,            \* the last call on the stack manager: what it was given and gave
    \* --- PrintLogicController ---
    disk,           \* the output file and the trigger directory
    save            \* the last save-and-print call: its inputs and what it did, in order

xorVars == <<encoded_data, decoded_data, int_xor, xor_i, xor_pass, xor_orig>>
loginVars == <<szv_plain, szv_file, value_prefix, decrypter, login, file_outcome>>
lblVars == <<lbl_lines, serial, val_call, val_result, header, record, reports>>
clickVars == <<config, product_name, click>>
navVars == <<stack, visible, fading, gone, pushes, nav>>
saveVars == <<disk, save>>
vars == <<xorVars, loginVars, lblVars, clickVars, navVars, saveVars>>

-----------------------------------------------------------------------------
(* Python values *)

\* None: no text holds the code point -1
NoneVal == <<-1>>
Return(v) == [kind |-> "return", value |-> v]
Raise(e) == [kind |-> "raise", exc |-> e]
Returned(o) == o.kind = "return"
Raised(o) == o.kind = "raise"

-----------------------------------------------------------------------------
(* str methods, on sequences of code points *)

\* str.isspace() of one character
IsSpace(c) ==
    c \in (9..13) \cup (28..32) \cup {133, 160, 5760} \cup (8192..8202)
          \cup {8232, 8233, 8239, 8287, 12288}

RECURSIVE LStrip(_)
LStrip(s) ==
    IF s # <<>> /\ IsSpace(Head(s)) THEN LStrip(Tail(s)) ELSE s

RECURSIVE RStrip(_)
RStrip(s) ==
    IF s # <<>> /\ IsSpace(s[Len(s)]) THEN RStrip(SubSeq(s, 1, Len(s) - 1)) ELSE s

\* s.strip()
Strip(s) == RStrip(LStrip(s))

\* s.startswith(p)
StartsWith(s, p) ==
    Len(p) <= Len(s) /\ SubSeq(s, 1, Len(p)) = p

\* s.find(sep) from 1-based position i: the first position >= i where sep occurs, 0 if none
RECURSIVE FindFrom(_, _, _)
FindFrom(s, sep, i) ==
    IF i + Len(sep) - 1 > Len(s) THEN 0
    ELSE IF SubSeq(s, i, i + Len(sep) - 1) = sep THEN i
    ELSE FindFrom(s, sep, i + 1)

\* s.split(sep), sep non-empty: cut at each occurrence, scanning left to right
RECURSIVE Split(_, _)
Split(s, sep) ==
    LET at == FindFrom(s, sep, 1)
    IN  IF at = 0 THEN <<s>>
        ELSE <<SubSeq(s, 1, at - 1)>> \o Split(SubSeq(s, at + Len(sep), Len(s)), sep)

\* sep.join(parts)
RECURSIVE Join(_, _)
Join(parts, sep) ==
    IF parts = <<>> THEN <<>>
    ELSE IF Len(parts) = 1 THEN parts[1]
    ELSE parts[1] \o sep \o Join(Tail(parts), sep)

-----------------------------------------------------------------------------
(* SzvDecrypt.decoding_line: the XOR step *)

\* a ^ b on non-negative integers
RECURSIVE BitXor(_, _)
BitXor(a, b) ==
    IF a = 0 THEN b
    ELSE IF b = 0 THEN a
    ELSE ((a + b) % 2) + 2 * BitXor(a \div 2, b \div 2)

\* the constants of the loop
KeyModulus == 32
KeyStep == 5
KeyMask == 6

\* int_xor = len(encoded_data) % 32
InitialKey(n) == n % KeyModulus

\* a byte XORed as by a sum: not self-inverse
XorByteBySum(b, k) == (b + BitXor(k, KeyMask)) % 256

\* decoded_data[i] = encoded_data[i] ^ (int_xor ^ 0x6)
XorByte(b, k) == BitXor(b, BitXor(k, KeyMask))

\* the key advanced with the reduction modulo 32 left out
NextKeyUnreduced(k) == k + KeyStep

\* int_xor = (int_xor + 5) % 32
NextKey(k) == (k + KeyStep) % KeyModulus

\* the for loop of decoding_line as a whole: bytes in, bytes out
RECURSIVE XorLoop(_, _)
XorLoop(bytes, k) ==
    IF bytes = <<>> THEN <<>>
    ELSE <<XorByte(Head(bytes), k)>> \o XorLoop(Tail(bytes), NextKey(k))

XorStep(bytes) == XorLoop(bytes, InitialKey(Len(bytes)))

-----------------------------------------------------------------------------
(* The XOR loop of decoding_line, one iteration per step *)

MaxXorLen == 64

XorSeeds == {0, 77, 255}
XorStrides == {0, 1, 37}

\* a byte sequence of length n: seed, seed + stride, ... (mod 256)
PatternBytes(n, seed, stride) == [j \in 1..n |-> (seed + stride * (j - 1)) % 256]

XorInputs ==
    {PatternBytes(n, seed, stride) : n \in 0..MaxXorLen, seed \in XorSeeds, stride \in XorStrides}

\* bytearray(n)
ZeroBytes(n) == [j \in 1..n |-> 0]

\* decoding_line entered with `bytes`: lines 99-100
XorEnter(bytes) ==
    /\ encoded_data = bytes
    /\ decoded_data = ZeroBytes(Len(bytes))
    /\ int_xor = InitialKey(Len(bytes))
    /\ xor_i = 0

XorIdle ==
    /\ XorEnter(<<>>)
    /\ xor_pass = 0
    /\ xor_orig = <<>>

\* one iteration of `for i in range(len(encoded_data))`
XorLoopBody ==
    /\ xor_pass \in {1, 2}
    /\ xor_i < Len(encoded_data)
    /\ decoded_data' =
           [decoded_data EXCEPT ![xor_i + 1] = XorByte(encoded_data[xor_i + 1], int_xor)]
    /\ int_xor' = NextKey(int_xor)
    /\ xor_i' = xor_i + 1
    /\ UNCHANGED <<encoded_data, xor_pass, xor_orig, loginVars, lblVars, clickVars, navVars, saveVars>>

\* the loop has ended: its output is handed to the loop a second time
XorAgain ==
    /\ xor_pass = 1
    /\ xor_i = Len(encoded_data)
    /\ encoded_data' = decoded_data
    /\ decoded_data' = ZeroBytes(Len(decoded_data))
    /\ int_xor' = InitialKey(Len(decoded_data))
    /\ xor_i' = 0
    /\ xor_pass' = 2
    /\ UNCHANGED <<xor_orig, loginVars, lblVars, clickVars, navVars, saveVars>>

XorDone == xor_i = Len(encoded_data)

-----------------------------------------------------------------------------
(* bytes <-> text *)

\* the code points of bytes 128..255 in Windows code page 1250; -1: the byte is undefined
Cp1250High ==
    <<
       8364, -1, 8218, -1, 8222, 8230, 8224, 8225, -1, 8240, 352, 8249,
       346, 356, 381, 377, -1, 8216, 8217, 8220, 8221, 8226, 8211, 8212,
       -1, 8482, 353, 8250, 347, 357, 382, 378, 160, 711, 728, 321,
       164, 260, 166, 167, 168, 169, 350, 171, 172, 173, 174, 379,
       176, 177, 731, 322, 180, 181, 182, 183, 184, 261, 351, 187,
       317, 733, 318, 380, 340, 193, 194, 258, 196, 313, 262, 199,
       268, 201, 280, 203, 282, 205, 206, 270, 272, 323, 327, 211,
       212, 336, 214, 215, 344, 366, 218, 368, 220, 221, 354, 223,
       341, 225, 226, 259, 228, 314, 263, 231, 269, 233, 281, 235,
       283, 237, 238, 271, 273, 324, 328, 243, 244, 337, 246, 247,
       345, 367, 250, 369, 252, 253, 355, 729
    >>

Cp1250Char(b) == IF b < 128 THEN b ELSE Cp1250High[b - 127]

\* bytes.decode('windows-1250'): UnicodeDecodeError on an undefined byte
Cp1250Decode(bytes) ==
    IF \E j \in 1..Len(bytes) : Cp1250Char(bytes[j]) = -1
    THEN Raise("UnicodeDecodeError")
    ELSE Return([j \in 1..Len(bytes) |-> Cp1250Char(bytes[j])])

\* one code point (below 65536) in UTF-8
Utf8Char(c) ==
    IF c < 128 THEN <<c>>
    ELSE IF c < 2048 THEN <<192 + (c \div 64), 128 + (c % 64)>>
    ELSE <<224 + (c \div 4096), 128 + ((c \div 64) % 64), 128 + (c % 64)>>

\* str.encode()
RECURSIVE Utf8Encode(_)
Utf8Encode(s) ==
    IF s = <<>> THEN <<>> ELSE Utf8Char(Head(s)) \o Utf8Encode(Tail(s))

\* hashlib.sha256(bytes).hexdigest(): collision-free, so the digest is modelled by
\* the bytes it was computed from
Sha256Hex(bytes) == [sha256 |-> bytes]

\* the value of one hex digit, 16 for any other character
HexDigitValue(c) ==
    IF c \in 48..57 THEN c - 48
    ELSE IF c \in 97..102 THEN c - 87
    ELSE IF c \in 65..70 THEN c - 55
    ELSE 16

IsAsciiSpace(c) == c \in {9, 10, 11, 12, 13, 32}

\* bytearray.fromhex(s): whitespace is skipped between bytes, each byte is two hex
\* digits, anything else is a ValueError
RECURSIVE FromHexFrom(_, _)
FromHexFrom(s, acc) ==
    IF s = <<>> THEN Return(acc)
    ELSE IF IsAsciiSpace(Head(s)) THEN FromHexFrom(Tail(s), acc)
    ELSE IF Len(s) >= 2 /\ HexDigitValue(s[1]) < 16 /\ HexDigitValue(s[2]) < 16
    THEN FromHexFrom(SubSeq(s, 3, Len(s)),
                     Append(acc, 16 * HexDigitValue(s[1]) + HexDigitValue(s[2])))
    ELSE Raise("ValueError")

FromHex(s) == FromHexFrom(s, <<>>)

\* the field separator of a decoded line, and the comma of the joined record
NAK == 21
Comma == 44

\* decoding_line(encoded_data): XOR, decode, split on NAK
decoding_line(bytes) ==
    LET text == Cp1250Decode(XorStep(bytes))
    IN  IF Raised(text) THEN text ELSE Return(Split(text.value, <<NAK>>))

-----------------------------------------------------------------------------
(* utils/messenger.py *)

\* what `self` is bound to in Messenger.error
MessengerObject == [type |-> "Messenger"]
StrObject == [type |-> "str"]

\* Messenger.error(self, message, title): box = QMessageBox(self.parent) reads the
\* attribute `parent` of self, which only a Messenger has; the dialog is then shown
\* and closed by the operator
MessengerError(self, message) ==
    IF self.type = "Messenger" THEN Return(NoneVal) ELSE Raise("AttributeError")

\* Messenger.error(str(e), "Prihlaseni"), called on the class: str(e) is bound to
\* self and the title to message
MessengerErrorOnClass(text, title) == MessengerError(text, title)

-----------------------------------------------------------------------------
(* SzvDecrypt.decoding_file *)

\* the credential file that cannot be opened
NoFile == [exists |-> FALSE, lines |-> <<>>]
TextFile(lines) == [exists |-> TRUE, lines |-> lines]

\* the two shapes of decoding_file's return value
PyList(items) == [type |-> "list", items |-> items]
PyFalse == [type |-> "bool", truth |-> FALSE]

\* line 163: the record of one decoded line, [digest of segment 0, segments joined by ',']
DigestedLine(decoded_line) ==
    IF Raised(decoded_line) THEN decoded_line
    ELSE Return(<<Sha256Hex(Utf8Encode(decoded_line.value[1])),
                  Join(decoded_line.value, <<Comma>>)>>)

\* line 162: decoding_line on the bytes of the line, if fromhex gave any
DecodedBytes(byte_array) ==
    IF Raised(byte_array) THEN byte_array
    ELSE DigestedLine(decoding_line(byte_array.value))

\* lines 161-163, one line of the file
DecodeFileLine(line) == DecodedBytes(FromHex(Strip(line)))

\* the append of line 163, unless the line raised: then the loop ends with the exception
RECURSIVE DecodeFileLines(_, _)
AppendDecoded(one, rest, decoded_lines) ==
    IF Raised(one) THEN one
    ELSE DecodeFileLines(rest, Append(decoded_lines, one.value))

\* the with/for of lines 159-163
DecodeFileLines(lines, decoded_lines) ==
    IF lines = <<>> THEN Return(decoded_lines)
    ELSE AppendDecoded(DecodeFileLine(Head(lines)), Tail(lines), decoded_lines)

\* lines 158-163: the try body
DecodingFileTry(file) ==
    IF ~file.exists THEN Raise("FileNotFoundError")
    ELSE DecodeFileLines(file.lines, <<>>)

\* lines 164-167: `except Exception`, then `return False`, if the handler gets that far
ExceptReturnFalse(shown) ==
    IF Raised(shown) THEN shown ELSE Return(PyFalse)

\* lines 164-169: what the try body left, through the handler
DecodingFileExcept(body) ==
    IF Raised(body)
    THEN ExceptReturnFalse(MessengerErrorOnClass(StrObject, "Prihlaseni"))
    ELSE Return(PyList(body.value))

\* decoding_file()
decoding_file(file) == DecodingFileExcept(DecodingFileTry(file))

-----------------------------------------------------------------------------
(* The credential files of the model *)

MaxCredLines == 2

\* lower-case hex text of a byte sequence
HexDigitChar(d) == IF d < 10 THEN 48 + d ELSE 87 + d

RECURSIVE HexText(_)
HexText(bytes) ==
    IF bytes = <<>> THEN <<>>
    ELSE <<HexDigitChar(Head(bytes) \div 16), HexDigitChar(Head(bytes) % 16)>>
         \o HexText(Tail(bytes))

\* what a line of the file is made from: the bytes of a record, obfuscated and
\* written as hex, or raw text that is no hex at all
PlainRecord(bytes) == [kind |-> "record", bytes |-> bytes]
RawLine(text) == [kind |-> "raw", text |-> text]

\* "p" NAK "i" NAK "N" NAK " J" NAK " X ": joined p,i,N, J, X
RecordA == PlainRecord(<<112, 21, 105, 21, 78, 21, 32, 74, 21, 32, 88, 32>>)
\* "p" NAK "i,O,L,Z": the same secret, another prefix
RecordA2 == PlainRecord(<<112, 21, 105, 44, 79, 44, 76, 44, 90>>)
\* "p" NAK "i,N,J": four parts
Record4 == PlainRecord(<<112, 21, 105, 44, 78, 44, 74>>)
\* "q" NAK "i,N": three parts
Record3 == PlainRecord(<<113, 21, 105, 44, 78>>)
\* "q" NAK "i" NAK 0x8A NAK "K" NAK 0xA0 "Y": S-caron, and a no-break space to trim
RecordB == PlainRecord(<<113, 21, 105, 21, 138, 21, 75, 21, 160, 89>>)
\* an empty line: the secret is the empty text, one part
RecordEmpty == PlainRecord(<<>>)
\* the byte 0x81, which code page 1250 does not define
RecordUndecodable == PlainRecord(<<129>>)
\* "4g": not hex
LineNotHex == RawLine(<<52, 103>>)

CredentialLines ==
    {RecordA, RecordA2, Record4, Record3, RecordB, RecordEmpty, RecordUndecodable,
     LineNotHex}

\* the text of one line as `for line in infile` yields it, newline included
FileLine(item) ==
    (IF item.kind = "record" THEN HexText(XorStep(item.bytes)) ELSE item.text) \o <<10>>

SeqsUpTo(S, n) == UNION {[1..k -> S] : k \in 0..n}

\* szv_input_file: absent, or up to MaxCredLines lines
CredentialSources ==
    {[exists |-> FALSE, items |-> <<>>]}
        \cup {[exists |-> TRUE, items |-> items] : items \in SeqsUpTo(CredentialLines, MaxCredLines)}

FileOf(source) ==
    IF source.exists
    THEN TextFile([k \in 1..Len(source.items) |-> FileLine(source.items[k])])
    ELSE NoFile

CredentialFiles == {FileOf(source) : source \in CredentialSources}

\* decoding_file is a function of the file alone: its outcome on each file of the
\* model, computed once
DecodedFiles == [file \in CredentialFiles |-> decoding_file(file)]

-----------------------------------------------------------------------------
(* SzvDecrypt.check_login *)

\* SzvDecrypt.__init__: the decoded values
FreshDecrypter ==
    [value_surname |-> NoneVal, value_name |-> NoneVal, value_prefix |-> NoneVal]

\* what a stretch of check_login leaves: its outcome, the instance, the global
Left(outcome, self, global) == [outcome |-> outcome, self |-> self, global |-> global]

\* lines 124-139 with the prefix published as it stands in the record, not trimmed
MatchRecordUntrimmed(decoded_line, self, global) ==
    LET parts == Split(decoded_line[2], <<Comma>>)
    IN  IF Len(parts) >= 4
        THEN IF Len(parts) < 5
             THEN Left(Raise("IndexError"), self, global)
             ELSE Left(Return(TRUE),
                       [value_surname |-> Strip(parts[3]), value_name |-> Strip(parts[4]),
                        value_prefix |-> parts[5]],
                       parts[5])
        ELSE Left(Return(FALSE), self, global)

\* lines 124-139: the record whose digest matched (parts[k] of the code is parts[k+1])
MatchRecord(decoded_line, self, global) ==
    IF Len(decoded_line) > 1
    THEN LET parts == Split(decoded_line[2], <<Comma>>)
         IN  IF Len(parts) >= 4
             THEN LET named == [self EXCEPT !.value_surname = Strip(parts[3]),
                                            !.value_name = Strip(parts[4])]
                  IN  IF Len(parts) < 5
                      THEN \* parts[4]: IndexError, after surname and name were assigned
                           Left(Raise("IndexError"), named, global)
                      ELSE LET found == [named EXCEPT !.value_prefix = Strip(parts[5])]
                           IN  Left(Return(TRUE), found, found.value_prefix)
             ELSE Left(Return(FALSE), self, global)
    ELSE Left(Return(FALSE), self, global)

\* lines 122-143: the scan of the decoded list, in file order, up to the first digest match
RECURSIVE ScanRecords(_, _, _, _)
ScanRecords(decoded_list, hashed_password, self, global) ==
    IF decoded_list = <<>> THEN Left(Return(FALSE), self, global)
    ELSE IF hashed_password = Head(decoded_list)[1]
    THEN MatchRecord(Head(decoded_list), self, global)
    ELSE ScanRecords(Tail(decoded_list), hashed_password, self, global)

\* lines 122-143 on what decoding_file gave
CheckLoginScan(decoded_list, hashed_password, self, global) ==
    IF Raised(decoded_list) THEN Left(decoded_list, self, global)
    ELSE IF decoded_list.value.type # "list"
    THEN \* `for decoded_line in False`
         Left(Raise("TypeError"), self, global)
    ELSE ScanRecords(decoded_list.value.items, hashed_password, self, global)

\* lines 119-143: the try body; line 120 is decoding_file(), looked up in DecodedFiles
CheckLoginTry(self, global, file, password) ==
    CheckLoginScan(DecodedFiles[file], Sha256Hex(Utf8Encode(password)), self, global)

\* lines 145-148: `except Exception`, then `return False`, if the handler gets that far
ExceptLoginFalse(shown) ==
    IF Raised(shown) THEN shown ELSE Return(FALSE)

\* lines 145-148: what the try body left, through the handler
CheckLoginExcept(body) ==
    IF Raised(body.outcome)
    THEN Left(ExceptLoginFalse(MessengerErrorOnClass(StrObject, "Prihlaseni")),
              body.self, body.global)
    ELSE body

\* check_login answering from the instance once a prefix is stored on it
check_login_cached(self, global, file, password) ==
    IF self.value_prefix # NoneVal THEN Left(Return(TRUE), self, global)
    ELSE CheckLoginExcept(CheckLoginTry(self, global, file, password))

\* check_login(password)
check_login(self, global, file, password) ==
    CheckLoginExcept(CheckLoginTry(self, global, file, password))

-----------------------------------------------------------------------------
(* The calls made on SzvDecrypt *)

\* "p", "q" and "": the empty password is the secret of an empty line only
Passwords == {<<112>>, <<113>>, <<>>}

\* the SzvDecrypt objects of the model
Instances == {1, 2}

NoCall == [call |-> "none"]

LoginInit ==
    /\ szv_plain \in CredentialSources
    /\ szv_file = FileOf(szv_plain)
    /\ value_prefix = NoneVal
    /\ decrypter = [i \in Instances |-> FreshDecrypter]
    /\ login = [i \in Instances |-> NoCall]
    /\ file_outcome = NoCall

LoginIdle ==
    /\ szv_plain = [exists |-> FALSE, items |-> <<>>]
    /\ szv_file = NoFile
    /\ value_prefix = NoneVal
    /\ decrypter = [i \in Instances |-> FreshDecrypter]
    /\ login = [i \in Instances |-> NoCall]
    /\ file_outcome = NoCall

\* SzvDecrypt(): a new object in place of instance i
SzvDecryptInit(i) ==
    /\ decrypter[i] # FreshDecrypter \/ login[i] # NoCall
    /\ decrypter' = [decrypter EXCEPT ![i] = FreshDecrypter]
    /\ login' = [login EXCEPT ![i] = NoCall]
    /\ UNCHANGED <<szv_plain, szv_file, value_prefix, file_outcome, xorVars, lblVars, clickVars, navVars, saveVars>>

\* the state after instance i ran check_login(password) and it left `left`
CheckLoginLeaves(i, password, left) ==
    /\ decrypter' = [decrypter EXCEPT ![i] = left.self]
    /\ value_prefix' = left.global
    /\ login' = [login EXCEPT ![i] =
                    [call |-> "check_login", password |-> password,
                     before |-> [self |-> decrypter[i], global |-> value_prefix],
                     outcome |-> left.outcome, published |-> left.global]]
    /\ UNCHANGED <<szv_plain, szv_file, file_outcome, xorVars, lblVars, clickVars, navVars, saveVars>>

\* instance i runs check_login(password)
CheckLogin(i, password) ==
    CheckLoginLeaves(i, password,
                     check_login(decrypter[i], value_prefix, szv_file, password))

\* decoding_file() called on its own
DecodingFile ==
    /\ file_outcome' = [call |-> "decoding_file", outcome |-> DecodedFiles[szv_file]]
    /\ UNCHANGED <<szv_plain, szv_file, value_prefix, decrypter, login, xorVars, lblVars, clickVars, navVars, saveVars>>

-----------------------------------------------------------------------------
(* utils/validators.py: Validator *)

\* what a Validator method leaves: the value returned, the text logged (the joined
\* missing keys for the two validate methods), whether self.messenger.error showed a
\* dialog and whether print_window.reset_input_focus() ran
Ran(value, logged, shown, reset) ==
    [value |-> value, logged |-> logged, shown |-> shown, reset |-> reset]

Quiet(value) == Ran(value, <<>>, FALSE, FALSE)

\* any(line.startswith(key) for line in lbl_lines)
AnyStartsWith(lines, key) ==
    \E n \in 1..Len(lines) : StartsWith(lines[n], key)

\* [key for key in keys if not any(...)]
RECURSIVE MissingKeys(_, _)
MissingKeys(lines, keys) ==
    IF keys = <<>> THEN <<>>
    ELSE (IF AnyStartsWith(lines, Head(keys)) THEN <<>> ELSE <<Head(keys)>>)
         \o MissingKeys(lines, Tail(keys))

\* the first missing key reported alone
ReportFirstMissing(missing_keys) ==
    IF missing_keys # <<>>
    THEN Ran(FALSE, Head(missing_keys), TRUE, TRUE)
    ELSE Quiet(TRUE)

\* `if missing_keys:` joined = ", ".join(missing_keys), logged; the dialog; the reset
ReportMissing(missing_keys) ==
    IF missing_keys # <<>>
    THEN Ran(FALSE, Join(missing_keys, <<44, 32>>), TRUE, TRUE)
    ELSE Quiet(TRUE)

\* validate_input_exists_for_product(lbl_lines, serial): keys B=, D=, E=
validate_input_exists_for_product(lines, sn) ==
    ReportMissing(MissingKeys(lines, <<sn \o <<66, 61>>, sn \o <<68, 61>>, sn \o <<69, 61>>>>))

\* validate_input_exists_for_control4(lbl_lines, serial): keys I=, J=, K=
validate_input_exists_for_control4(lines, sn) ==
    ReportMissing(MissingKeys(lines, <<sn \o <<73, 61>>, sn \o <<74, 61>>, sn \o <<75, 61>>>>))

\* line.split(token)[1].strip()
AfterToken(line, token) == Strip(Split(line, token)[2])

\* the scan keeping the first match of each key instead of the last
RECURSIVE ScanFirstMatch(_, _, _, _, _)
ScanFirstMatch(lines, sn, h, r, found) ==
    IF lines = <<>> THEN found
    ELSE ScanFirstMatch(Tail(lines), sn, h, r,
             IF StartsWith(Head(lines), sn \o h) /\ found.header = NoneVal
             THEN [found EXCEPT !.header = AfterToken(Head(lines), h)]
             ELSE IF StartsWith(Head(lines), sn \o r) /\ found.record = NoneVal
             THEN [found EXCEPT !.record = AfterToken(Head(lines), r)]
             ELSE found)

\* the for loop of lines 134-138 (187-191): every line, header and record overwritten
\* on each match; h and r are the tokens D= and E= (J= and K=)
RECURSIVE ScanHeaderRecord(_, _, _, _, _)
ScanHeaderRecord(lines, sn, h, r, found) ==
    IF lines = <<>> THEN found
    ELSE ScanHeaderRecord(Tail(lines), sn, h, r,
             IF StartsWith(Head(lines), sn \o h)
             THEN [found EXCEPT !.header = AfterToken(Head(lines), h)]
             ELSE IF StartsWith(Head(lines), sn \o r)
             THEN [found EXCEPT !.record = AfterToken(Head(lines), r)]
             ELSE found)

\* `not x` of a str or None
Falsy(x) == x = NoneVal \/ x = <<>>

\* the pair returned as soon as one of the two was found
HeaderRecordEither(found) ==
    IF Falsy(found.header) /\ Falsy(found.record)
    THEN Ran(NoneVal, <<>>, TRUE, TRUE)
    ELSE Quiet(<<found.header, found.record>>)

\* lines 140-146 (193-199): None with log, dialog and reset, or the pair
HeaderRecordResult(found) ==
    IF Falsy(found.header) \/ Falsy(found.record)
    THEN Ran(NoneVal, <<>>, TRUE, TRUE)
    ELSE Quiet(<<found.header, found.record>>)

\* extract_header_and_record(lbl_lines, serial)
extract_header_and_record(lines, sn) ==
    HeaderRecordResult(ScanHeaderRecord(lines, sn, <<68, 61>>, <<69, 61>>,
                                        [header |-> NoneVal, record |-> NoneVal]))

\* extract_header_and_record_c4(lbl_lines, serial)
extract_header_and_record_c4(lines, sn) ==
    HeaderRecordResult(ScanHeaderRecord(lines, sn, <<74, 61>>, <<75, 61>>,
                                        [header |-> NoneVal, record |-> NoneVal]))

\* None where the other value returned is a list
PyNone == [type |-> "NoneType"]

\* [val.strip() for val in raw_value.split(";") if val.strip()], over the split list
RECURSIVE StripNonEmpty(_)
StripNonEmpty(segments) ==
    IF segments = <<>> THEN <<>>
    ELSE (IF Strip(Head(segments)) # <<>> THEN <<Strip(Head(segments))>> ELSE <<>>)
         \o StripNonEmpty(Tail(segments))

\* raw_value = line.split(token)[1]; the values of raw_value.split(";")
TriggerValues(line, token) == StripNonEmpty(Split(Split(line, token)[2], <<59>>))

\* the scan from the end: the last line starting with serial + token returns its values
RECURSIVE ScanTriggerLineLast(_, _, _)
ScanTriggerLineLast(lines, sn, token) ==
    IF lines = <<>> THEN Ran(PyNone, sn \o token, TRUE, TRUE)
    ELSE IF StartsWith(lines[Len(lines)], sn \o token)
    THEN Quiet(PyList(TriggerValues(lines[Len(lines)], token)))
    ELSE ScanTriggerLineLast(SubSeq(lines, 1, Len(lines) - 1), sn, token)

\* lines 160-169 (213-221): the first line starting with serial + token returns its
\* values; no such line: the key logged, the dialog, the reset, None
RECURSIVE ScanTriggerLine(_, _, _)
ScanTriggerLine(lines, sn, token) ==
    IF lines = <<>> THEN Ran(PyNone, sn \o token, TRUE, TRUE)
    ELSE IF StartsWith(Head(lines), sn \o token)
    THEN Quiet(PyList(TriggerValues(Head(lines), token)))
    ELSE ScanTriggerLine(Tail(lines), sn, token)

\* extract_trigger_values(lbl_lines, serial)
extract_trigger_values(lines, sn) == ScanTriggerLine(lines, sn, <<66, 61>>)

\* extract_trigger_values_c4(lbl_lines, serial)
extract_trigger_values_c4(lines, sn) == ScanTriggerLine(lines, sn, <<73, 61>>)

\* the delimiter '","' and the field name "P Znacka balice"
FieldDelimiter == <<34, 44, 34>>
FieldBalice == <<80, 32, 90, 110, 97, 99, 107, 97, 32, 98, 97, 108, 105, 99, 101>>

\* header_fields.index(name): the first position holding name (1-based), 0 for ValueError
RECURSIVE IndexFrom(_, _, _)
IndexFrom(fields, name, k) ==
    IF k > Len(fields) THEN 0
    ELSE IF fields[k] = name THEN k
    ELSE IndexFrom(fields, name, k + 1)

\* what a call that raised leaves
Threw(exc) == [raised |-> exc]

\* lines 109-110 with the prefix put into the field after the one located
InjectAtNext(index, record_fields, prefix) ==
    IF index = 0
    THEN Ran(NoneVal, <<80, 111, 108, 101, 32, 39, 80, 32, 90, 110, 97, 99, 107, 97, 32, 98, 97, 108, 105, 99, 101, 39, 32, 99, 104, 121, 98, 237, 46>>, TRUE, TRUE)
    ELSE IF index - 1 >= Len(record_fields)
    THEN Ran(NoneVal, <<78, 101, 112, 108, 97, 116, 110, 253, 32, 105, 110, 100, 101, 120, 32, 112, 111, 108, 101, 32, 39, 80, 32, 90, 110, 97, 99, 107, 97, 32, 98, 97, 108, 105, 99, 101, 39>>, TRUE, TRUE)
    ELSE Quiet(Join([k \in 1..Len(record_fields) |->
                        IF k = (index % Len(record_fields)) + 1 THEN prefix
                        ELSE record_fields[k]], FieldDelimiter))

\* lines 100-116 once header_fields.index() gave `index` (1-based; 0: ValueError)
InjectAt(index, record_fields, prefix) ==
    IF index = 0
    THEN \* except ValueError: "Pole 'P Znacka balice' chybi."
         Ran(NoneVal, <<80, 111, 108, 101, 32, 39, 80, 32, 90, 110, 97, 99, 107, 97, 32, 98, 97, 108, 105, 99, 101, 39, 32, 99, 104, 121, 98, 237, 46>>, TRUE, TRUE)
    ELSE IF index - 1 >= Len(record_fields)
    THEN \* "Neplatny index pole 'P Znacka balice'"
         Ran(NoneVal, <<78, 101, 112, 108, 97, 116, 110, 253, 32, 105, 110, 100, 101, 120, 32, 112, 111, 108, 101, 32, 39, 80, 32, 90, 110, 97, 99, 107, 97, 32, 98, 97, 108, 105, 99, 101, 39>>, TRUE, TRUE)
    ELSE IF prefix = NoneVal
    THEN \* '","'.join of a list holding None
         Threw("TypeError")
    ELSE Quiet(Join([record_fields EXCEPT ![index] = prefix], FieldDelimiter))

\* validate_and_inject_balice(header, record); prefix is what get_value_prefix() returns
validate_and_inject_balice(h, r, prefix) ==
    InjectAt(IndexFrom(Split(h, FieldDelimiter), FieldBalice, 1),
             Split(r, FieldDelimiter), prefix)

\* str.lower() of one character: the code points it becomes.  Upper-case ASCII and
\* Latin-1 letters, the Kelvin sign (to k) and I with dot above (to i and a combining
\* dot: two code points); the other characters of the model's files are unchanged
LowerChar(c) ==
    IF c \in 65..90 THEN <<c + 32>>
    ELSE IF c \in (192..222) \ {215} THEN <<c + 32>>
    ELSE IF c = 304 THEN <<105, 775>>
    ELSE IF c = 8490 THEN <<107>>
    ELSE <<c>>

\* s.lower()
RECURSIVE Lower(_)
Lower(s) == IF s = <<>> THEN <<>> ELSE LowerChar(Head(s)) \o Lower(Tail(s))

\* the characters str.splitlines() breaks at (CR LF being one break)
LineBreaks == {10, 11, 12, 13, 28, 29, 30, 133, 8232, 8233}

\* text.splitlines(), from position i on, `line` being the line gathered so far
RECURSIVE SplitLinesFrom(_, _, _)
SplitLinesFrom(text, i, line) ==
    IF i > Len(text) THEN (IF line = <<>> THEN <<>> ELSE <<line>>)
    ELSE IF text[i] = 13 /\ i < Len(text) /\ text[i + 1] = 10
    THEN <<line>> \o SplitLinesFrom(text, i + 2, <<>>)
    ELSE IF text[i] \in LineBreaks
    THEN <<line>> \o SplitLinesFrom(text, i + 1, <<>>)
    ELSE SplitLinesFrom(text, i + 1, Append(line, text[i]))

SplitLines(text) == SplitLinesFrom(text, 1, <<>>)

\* "my2n token:"
token_prefix == <<109, 121, 50, 110, 32, 116, 111, 107, 101, 110, 58>>

\* the messages logged by extract_my2n_token
LogInvalidSerial == <<78, 101, 112, 108, 97, 116, 110, 253, 32, 102, 111, 114, 109, 225, 116, 32, 115, 101, 114, 105, 97, 108, 32, 110, 117, 109, 98, 101, 114, 46>>
LogNoToken == <<86, 32, 115, 111, 117, 98, 111, 114, 117, 32, 110, 101, 98, 121, 108, 32, 110, 97, 108, 101, 122, 101, 110, 32, 382, 225, 100, 110, 253, 32, 77, 121, 50, 78, 32, 116, 111, 107, 101, 110, 46>>
LogTokenError == <<67, 104, 121, 98, 97, 32, 112, 345, 105, 32, 122, 112, 114, 97, 99, 111, 118, 225, 110, 237, 32, 345, 225, 100, 107, 117, 32, 115, 32, 116, 111, 107, 101, 110, 101, 109, 46>>
LogEmptyToken == <<77, 121, 50, 78, 32, 116, 111, 107, 101, 110, 32, 106, 101, 32, 112, 114, 225, 122, 100, 110, 253, 46>>
LogReadError == <<67, 104, 121, 98, 97, 32, 269, 116, 101, 110, 237, 32, 110, 101, 98, 111, 32, 101, 120, 116, 114, 97, 107, 99, 101, 58, 32>>

\* str(source_file): reports_path and the names below it, joined by '/'
ReportsRoot == <<114, 101, 112, 111, 114, 116, 115>>
PathText(path) == Join(<<ReportsRoot>> \o path, <<47>>)

\* "Report soubor %s neexistuje."
LogNoReport(path) == <<82, 101, 112, 111, 114, 116, 32, 115, 111, 117, 98, 111, 114, 32>> \o PathText(path) \o <<32, 110, 101, 101, 120, 105, 115, 116, 117, 106, 101, 46>>

\* what extract_my2n_token leaves: the value returned, the text logged, the dialog and
\* the input reset (on every failure), the paths it looked at
My2nFailed(logged, probed) ==
    [value |-> NoneVal, logged |-> logged, shown |-> TRUE, reset |-> TRUE, probed |-> probed]
My2nToken(value, probed) ==
    [value |-> value, logged |-> <<>>, shown |-> FALSE, reset |-> FALSE, probed |-> probed]

\* the name with parts[1] + parts[2] alone, the directories as in lines 270-271
ReportFileNoSuffix(parts) ==
    <<<<50, 48>> \o parts[1], parts[2], parts[2] \o parts[3]>>

\* lines 268-273: source_file below reports_path (parts[k] of the code is parts[k+1]);
\* the names are not empty and hold no separator
ReportFile(parts) ==
    <<<<50, 48>> \o parts[1], parts[2], parts[2] \o parts[3] \o <<46>> \o parts[1]>>

\* the first line holding the marker
RECURSIVE FirstTokenLine(_)
FirstTokenLine(lines) ==
    IF lines = <<>> THEN NoneVal
    ELSE IF FindFrom(Lower(Head(lines)), token_prefix, 1) # 0 THEN Head(lines)
    ELSE FirstTokenLine(Tail(lines))

\* line 282: next((line for line in reversed(lines) if "my2n token:" in line.lower()), None)
RECURSIVE LastTokenLine(_)
LastTokenLine(lines) ==
    IF lines = <<>> THEN NoneVal
    ELSE IF FindFrom(Lower(lines[Len(lines)]), token_prefix, 1) # 0 THEN lines[Len(lines)]
    ELSE LastTokenLine(SubSeq(lines, 1, Len(lines) - 1))

\* lines 302-310: the slice of the original line from prefix_index + len(token_prefix),
\* trimmed (prefix_index is 0-based in the code, 1-based here)
TokenValue(token_value, probed) ==
    IF token_value = <<>> THEN My2nFailed(LogEmptyToken, probed)
    ELSE My2nToken(token_value, probed)

\* lines 292-302: prefix_index is found in the lowered line and used on the original
TokenAt(token_line, prefix_index, probed) ==
    IF prefix_index = 0 THEN My2nFailed(LogTokenError, probed)
    ELSE TokenValue(Strip(SubSeq(token_line, prefix_index + Len(token_prefix),
                                 Len(token_line))), probed)

\* lines 283-310
TokenOfLine(token_line, probed) ==
    IF token_line = NoneVal THEN My2nFailed(LogNoToken, probed)
    ELSE TokenAt(token_line, FindFrom(Lower(token_line), token_prefix, 1), probed)

\* the report file at `path`, if there is one
FilesAt(files, path) == {f \in files : f.path = path}

\* lines 280-316: read_text() of the file found; a file that cannot be read raises into
\* `except Exception`
ReadToken(found, probed) ==
    IF ~found.readable THEN My2nFailed(LogReadError, probed)
    ELSE TokenOfLine(LastTokenLine(SplitLines(found.text)), probed)

\* lines 273-316: source_file.exists(), then the read
TokenFromFile(files, path) ==
    IF FilesAt(files, path) = {} THEN My2nFailed(LogNoReport(path), {path})
    ELSE ReadToken(CHOOSE f \in FilesAt(files, path) : TRUE, {path})

\* extract_my2n_token(serial_number, reports_path); files is what lies under reports_path
extract_my2n_token(serial_number, files) ==
    IF Len(Split(serial_number, <<45>>)) # 3
    THEN My2nFailed(LogInvalidSerial, {})
    ELSE TokenFromFile(files, ReportFile(Split(serial_number, <<45>>)))

-----------------------------------------------------------------------------
(* controllers/print_controller.py: PrintController *)

\* str.upper() of one character: the code points it becomes.  Lower-case ASCII and
\* Latin-1 letters, sharp s (to SS: two code points), y with diaeresis and the micro
\* sign; the other characters of the model's inputs are unchanged
UpperChar(c) ==
    IF c \in 97..122 THEN <<c - 32>>
    ELSE IF c = 223 THEN <<83, 83>>
    ELSE IF c \in (224..254) \ {247} THEN <<c - 32>>
    ELSE IF c = 255 THEN <<376>>
    ELSE IF c = 181 THEN <<924>>
    ELSE <<c>>

\* s.upper()
RECURSIVE Upper(_)
Upper(s) == IF s = <<>> THEN <<>> ELSE UpperChar(Head(s)) \o Upper(Tail(s))

\* the serial_input property: serial_number_input.text().strip().upper()
serial_input(text) == Upper(Strip(text))

\* the product_name property: print_window.product_name.strip().upper()
CleanedProductName(name) == Upper(Strip(name))

\* \d of a str pattern: the decimal digits of Unicode (ASCII, Arabic-Indic, Extended
\* Arabic-Indic and fullwidth among them)
IsDecimalDigit(c) ==
    c \in (48..57) \cup (1632..1641) \cup (1776..1785) \cup (65296..65305)

\* re.fullmatch(r"^\d{2}-\d{4}-\d{4}$", serial_number)
MatchesSerialPattern(s) ==
    /\ Len(s) = 12
    /\ \A k \in 1..12 : IF k \in {3, 8} THEN s[k] = 45 ELSE IsDecimalDigit(s[k])

\* validate_serial_format(serial_number): no match shows the info dialog and resets
\* the input; nothing is logged
validate_serial_format(serial_number) ==
    IF ~MatchesSerialPattern(serial_number) THEN Ran(FALSE, <<>>, TRUE, TRUE)
    ELSE Quiet(TRUE)

\* self.config of lines 29-31: a configparser.ConfigParser that kept the case of the
\* option names and read config.ini; `mapping` is the section ProductTriggerMapping as
\* read, its options in file order
ConfigParserObject(mapping) ==
    [type |-> "ConfigParser", optionxform |-> "str", mapping |-> mapping]

\* the PrintController after __init__ (lines 29-42): the attributes it was given
PrintControllerObject(cfg) ==
    [config |-> cfg, window_stack |-> "WindowStackManager", print_window |-> "PrintWindow",
     validator |-> "Validator", messenger |-> MessengerObject, logger |-> "Logger"]

\* obj.name: the attribute, or AttributeError when the object has none of that name
GetAttr(obj, name) ==
    IF name \in DOMAIN obj THEN Return(obj[name]) ELSE Raise("AttributeError")

\* [i.strip() for i in raw_list.split(',')], over the split list
RECURSIVE StripEach(_)
StripEach(segments) ==
    IF segments = <<>> THEN <<>>
    ELSE <<Strip(Head(segments))>> \o StripEach(Tail(segments))

\* `product_name in items`
InList(item, items) == \E k \in 1..Len(items) : items[k] = item

\* lines 256-261: the loop over the options of ProductTriggerMapping
RECURSIVE MatchingGroups(_, _)
MatchingGroups(options, name) ==
    IF options = <<>> THEN <<>>
    ELSE (IF InList(name, StripEach(Split(Head(options).raw_list, <<44>>)))
          THEN <<Head(options).section_key>> ELSE <<>>)
         \o MatchingGroups(Tail(options), name)

\* lines 256-263 on what self.config.config gave
TriggerGroupsOf(inner, name) ==
    IF Raised(inner) THEN inner
    ELSE Return(MatchingGroups(inner.value.mapping, name))

\* get_trigger_groups_for_product(): line 257 asks self.config, the ConfigParser, for
\* its attribute `config`
get_trigger_groups_for_product(self, name) ==
    TriggerGroupsOf(GetAttr(self.config, "config"), CleanedProductName(name))

\* product_save_and_print, control4_save_and_print: line 171 (121) asks self.config for
\* get_path before anything is opened or written; the statements after it run only
\* with that attribute
product_save_and_print(self) == GetAttr(self.config, "get_path")
control4_save_and_print(self) == GetAttr(self.config, "get_path")

\* what one click on Print leaves: how the handler ended, the branches whose body it
\* entered, whether a dialog was shown and whether the input was reset
Clicked(outcome, entered, shown, reset) ==
    [outcome |-> outcome, entered |-> entered, shown |-> shown, reset |-> reset]

\* a validator that failed ends the click: `return`
ClickReturned(entered, ran) == Clicked(Return(NoneVal), entered, ran.shown, ran.reset)

\* lines 355-356: self.normal_logger.add_blank_line(), then the reset
ClickEnd(self, entered) ==
    IF Raised(GetAttr(self, "normal_logger"))
    THEN Clicked(GetAttr(self, "normal_logger"), entered, FALSE, FALSE)
    ELSE Clicked(Return(NoneVal), entered, FALSE, TRUE)

\* lines 339-353: the My2N branch; line 340 asks self.config for get_path
My2nBranch(self, triggers, sn, files, entered) ==
    IF ~InList("my2n", triggers) THEN ClickEnd(self, entered)
    ELSE IF Raised(GetAttr(self.config, "get_path"))
    THEN Clicked(GetAttr(self.config, "get_path"), entered \cup {"my2n"}, FALSE, FALSE)
    ELSE IF extract_my2n_token(sn, files).value = NoneVal
    THEN ClickReturned(entered \cup {"my2n"}, extract_my2n_token(sn, files))
    ELSE IF Raised(GetAttr(self, "normal_logger"))
    THEN Clicked(GetAttr(self, "normal_logger"), entered \cup {"my2n"}, FALSE, FALSE)
    ELSE ClickEnd(self, entered \cup {"my2n"})

\* lines 333-336: the save, then self.normal_logger.clear_log
Control4Save(self, triggers, sn, files, entered) ==
    IF Raised(control4_save_and_print(self))
    THEN Clicked(control4_save_and_print(self), entered, FALSE, FALSE)
    ELSE IF Raised(GetAttr(self, "normal_logger"))
    THEN Clicked(GetAttr(self, "normal_logger"), entered, FALSE, FALSE)
    ELSE My2nBranch(self, triggers, sn, files, entered)

\* lines 316-336: the Control4 branch; each failed step returns from the handler
Control4Branch(self, triggers, sn, lines, files, entered) ==
    IF ~InList("control4", triggers) THEN My2nBranch(self, triggers, sn, files, entered)
    ELSE IF ~validate_input_exists_for_control4(lines, sn).value
    THEN ClickReturned(entered \cup {"control4"}, validate_input_exists_for_control4(lines, sn))
    ELSE IF extract_header_and_record_c4(lines, sn).value = NoneVal
    THEN ClickReturned(entered \cup {"control4"}, extract_header_and_record_c4(lines, sn))
    ELSE IF extract_trigger_values_c4(lines, sn).value \in {PyNone, PyList(<<>>)}
    THEN ClickReturned(entered \cup {"control4"}, extract_trigger_values_c4(lines, sn))
    ELSE Control4Save(self, triggers, sn, files, entered \cup {"control4"})

\* lines 310-313: the save, then self.normal_logger.clear_log
ProductSave(self, triggers, sn, lines, files, entered) ==
    IF Raised(product_save_and_print(self))
    THEN Clicked(product_save_and_print(self), entered, FALSE, FALSE)
    ELSE IF Raised(GetAttr(self, "normal_logger"))
    THEN Clicked(GetAttr(self, "normal_logger"), entered, FALSE, FALSE)
    ELSE Control4Branch(self, triggers, sn, lines, files, entered)

\* lines 300-307: the prefix injected, then the B= values
ProductInject(self, triggers, sn, lines, injected, files, entered) ==
    IF "raised" \in DOMAIN injected
    THEN Clicked(Raise(injected.raised), entered, FALSE, FALSE)
    ELSE IF injected.value = NoneVal THEN ClickReturned(entered, injected)
    ELSE IF extract_trigger_values(lines, sn).value \in {PyNone, PyList(<<>>)}
    THEN ClickReturned(entered, extract_trigger_values(lines, sn))
    ELSE ProductSave(self, triggers, sn, lines, files, entered)

\* lines 286-313: the Product branch; each failed step returns from the handler
ProductBranch(self, triggers, sn, lines, prefix, files) ==
    IF ~InList("product", triggers)
    THEN Control4Branch(self, triggers, sn, lines, files, {})
    ELSE IF ~validate_input_exists_for_product(lines, sn).value
    THEN ClickReturned({"product"}, validate_input_exists_for_product(lines, sn))
    ELSE IF extract_header_and_record(lines, sn).value = NoneVal
    THEN ClickReturned({"product"}, extract_header_and_record(lines, sn))
    ELSE ProductInject(self, triggers, sn, lines,
                       validate_and_inject_balice(extract_header_and_record(lines, sn).value[1],
                                                  extract_header_and_record(lines, sn).value[2],
                                                  prefix),
                       files, {"product"})

\* lines 279-283: load_file_lbl() gave `lines`; an empty list (its dialog was shown and
\* the input reset) goes to self.normal_logger.log
ClickOnLines(self, triggers, sn, lines, prefix, files) ==
    IF lines = <<>>
    THEN (IF Raised(GetAttr(self, "normal_logger"))
          THEN Clicked(GetAttr(self, "normal_logger"), {}, TRUE, TRUE)
          ELSE Clicked(GetAttr(GetAttr(self, "messenger").value, "show_error"), {}, TRUE, TRUE))
    ELSE ProductBranch(self, triggers, sn, lines, prefix, files)

\* lines 276-356 on what get_trigger_groups_for_product() gave
ClickOnGroups(self, triggers, sn, lines, prefix, files) ==
    IF Raised(triggers) THEN Clicked(triggers, {}, FALSE, FALSE)
    ELSE ClickOnLines(self, triggers.value, sn, lines, prefix, files)

\* print_button_click(): `text` is what the input field holds, `name` the product name
\* of the window, `lines` the .lbl file of the order (<<>>: none to load), `prefix`
\* what get_value_prefix() returns, `files` what lies under reports_path
print_button_click(self, text, name, lines, prefix, files) ==
    IF ~validate_serial_format(serial_input(text)).value
    THEN ClickReturned({}, validate_serial_format(serial_input(text)))
    ELSE ClickOnGroups(self, get_trigger_groups_for_product(self, name),
                       serial_input(text), lines, prefix, files)

-----------------------------------------------------------------------------
(* utils/window_stack.py: WindowStackManager; WindowEffectsManager.fade_out *)

\* what a call on the stack manager leaves: the stack, the windows shown, the value
\* returned (0 for None)
Stacked(s, shown, value) == [stack |-> s, visible |-> shown, value |-> value]

\* push without hiding the window on top
PushNoHide(s, shown, window) ==
    Stacked(Append(s, window), shown \cup {window}, 0)

\* push(window): the top, if any, is hidden; the window is appended and shown
push(s, shown, window) ==
    Stacked(Append(s, window),
            (IF s # <<>> THEN shown \ {s[Len(s)]} ELSE shown) \cup {window}, 0)

\* lines 52-58 of pop: the stack after self._stack.pop(); `previous` is shown if it is
\* not visible.  On a `previous` that was deleted, isVisible() raises RuntimeError:
\* the stack stays popped, nothing is shown
PopShowsPrevious(rest, shown, closing, deleted) ==
    Stacked(rest,
            IF rest # <<>> /\ rest[Len(rest)] \notin deleted
            THEN shown \cup {rest[Len(rest)]} ELSE shown,
            closing)

\* pop(): None on an empty stack; the last window leaves the stack and is returned
pop(s, shown, deleted) ==
    IF s = <<>> THEN Stacked(s, shown, 0)
    ELSE PopShowsPrevious(SubSeq(s, 1, Len(s) - 1), shown, s[Len(s)], deleted)

\* _on_window_closed(): the slot of every pushed window's destroyed signal; it is not
\* told which window was destroyed
on_window_closed(s, shown, deleted) == pop(s, shown, deleted)

-----------------------------------------------------------------------------
(* controllers/print_logic_controller.py: PrintLogicController *)

\* the output file and the trigger directory: what the output file holds (None: there
\* is no such file), whether the directory of trigger_path exists, the files in it
Disk(output, trigger_dir, triggers) ==
    [output |-> output, trigger_dir |-> trigger_dir, triggers |-> triggers]

\* the one operation of a call that raises: its name and, for touch, which of the
\* touches (at = "none": nothing raises)
Fault(at, k) == [at |-> at, k |-> k]

\* a call under way: the disk and the file operations done so far, in order
Saving(d, trace) == [disk |-> d, trace |-> trace]

\* a call that ended: a failure has logged, shown its dialog and reset the input
Saved(st, outcome, shown) ==
    [disk |-> st.disk, trace |-> st.trace, outcome |-> outcome, shown |-> shown,
     reset |-> shown]

\* one file operation done
Did(st, d, op) == Saving(d, Append(st.trace, op))

\* lines 66-68 (107-109, 148-149): target_file.touch(exist_ok=True) for each value; a
\* touch that raises goes to `except Exception`
RECURSIVE TouchAll(_, _, _, _)
TouchAll(st, values, k, fault) ==
    IF k > Len(values) THEN Saved(st, Return(NoneVal), FALSE)
    ELSE IF fault = Fault("touch", k) THEN Saved(st, Return(NoneVal), TRUE)
    ELSE TouchAll(Did(st, [st.disk EXCEPT !.triggers = @ \cup {values[k]}],
                      <<"touch", values[k]>>),
                  values, k + 1, fault)

\* the touches made whatever _get_trigger_dir() returned
TouchWithoutDir(st, raw_path, values, fault) == TouchAll(st, values, 1, fault)

\* _get_trigger_dir(), lines 62-64: trigger_path missing from config.ini (None here:
\* config.get raises, caught at line 70), empty, or naming no directory ends the call
\* with the dialog shown
TriggerDirThenTouch(st, raw_path, values, fault) ==
    IF raw_path = NoneVal \/ raw_path = <<>> \/ ~st.disk.trigger_dir
    THEN Saved(st, Return(NoneVal), TRUE)
    ELSE TouchAll(st, values, 1, fault)

\* the second file.write and the end of the `with` block
WriteSecond(st, second, raw_path, values, fault) ==
    IF fault.at = "second" THEN Saved(Did(st, st.disk, <<"close">>), Return(NoneVal), TRUE)
    ELSE TriggerDirThenTouch(
             Did(Did(st, [st.disk EXCEPT !.output = @ \o second \o <<10>>], <<"write", second>>),
                 [st.disk EXCEPT !.output = @ \o second \o <<10>>], <<"close">>),
             raw_path, values, fault)

\* lines 58-60 (99-101, 140-142): open("w"), the two lines written, the file closed
WriteLines(st, first, second, raw_path, values, fault) ==
    IF fault.at = "open" THEN Saved(st, Return(NoneVal), TRUE)
    ELSE IF fault.at = "first"
    THEN Saved(Did(Did(st, [st.disk EXCEPT !.output = <<>>], <<"open">>),
                   [st.disk EXCEPT !.output = <<>>], <<"close">>),
               Return(NoneVal), TRUE)
    ELSE WriteSecond(Did(Did(st, [st.disk EXCEPT !.output = <<>>], <<"open">>),
                         [st.disk EXCEPT !.output = first \o <<10>>], <<"write", first>>),
                     second, raw_path, values, fault)

\* lines 51-56 (92-97, 133-138): the old file is deleted; a failed unlink is logged
Unlinked(st, fault) ==
    IF st.disk.output = NoneVal \/ fault.at = "unlink" THEN st
    ELSE Did(st, [st.disk EXCEPT !.output = NoneVal], <<"unlink">>)

\* the body the three methods share: raw_output is the output path of config.ini (None:
\* the option is missing and config.get raises out of the method), first and second the
\* two lines, values the trigger names, raw_path the value of trigger_path
SaveAndPrint(d, raw_output, first, second, values, raw_path, fault) ==
    IF raw_output = NoneVal THEN Saved(Saving(d, <<>>), Raise("NoOptionError"), FALSE)
    ELSE IF raw_output = <<>> THEN Saved(Saving(d, <<>>), Return(NoneVal), TRUE)
    ELSE WriteLines(Unlinked(Saving(d, <<>>), fault), first, second, raw_path, values, fault)

\* PrintLogicController.product_save_and_print(header, record, trigger_values)
LogicProductSaveAndPrint(d, raw_output, h, r, trigger_values, raw_path, fault) ==
    SaveAndPrint(d, raw_output, h, r, trigger_values, raw_path, fault)

\* PrintLogicController.control4_save_and_print(header, record, trigger_values)
LogicControl4SaveAndPrint(d, raw_output, h, r, trigger_values, raw_path, fault) ==
    SaveAndPrint(d, raw_output, h, r, trigger_values, raw_path, fault)

\* the two lines of the My2N output file and its trigger SF_MY2N_A
My2nHeaderLine ==
    <<34, 76, 32, 86, 121, 114, 111, 98, 110, 105, 32, 99, 105, 115, 108, 111, 32, 100, 108, 111, 117, 104, 101, 34, 44, 34, 76, 32, 66, 101, 122, 112, 101, 99, 110, 111, 115, 116, 110, 105, 32, 99, 105, 115, 108, 111, 34, 44, 34, 80, 32, 86, 121, 114, 111, 98, 110, 105, 32, 99, 105, 115, 108, 111, 34, 44, 34, 80, 32, 66, 101, 122, 112, 101, 99, 110, 111, 115, 116, 110, 105, 32, 107, 111, 100, 34>>
My2nRecordLine(serial_number, token) ==
    <<34, 83, 101, 114, 105, 97, 108, 32, 110, 117, 109, 98, 101, 114, 58, 34, 44, 34, 77, 121, 50, 78, 32, 83, 101, 99, 117, 114, 105, 116, 121, 32, 67, 111, 100, 101, 58, 34, 44, 34>> \o serial_number \o <<34, 44, 34>> \o token \o <<34>>
My2nTrigger == <<83, 70, 95, 77, 89, 50, 78, 95, 65>>

\* PrintLogicController.my2n_save_and_print(serial_number, token)
LogicMy2nSaveAndPrint(d, raw_output, serial_number, token, raw_path, fault) ==
    SaveAndPrint(d, raw_output, My2nHeaderLine, My2nRecordLine(serial_number, token),
                 <<My2nTrigger>>, raw_path, fault)

-----------------------------------------------------------------------------
(* The label line sets of the model and the calls made on Validator *)

MaxLblLines == 3

\* 24-0001-0002 and 99-9999-9999
Serials ==
    {<<50, 52, 45, 48, 48, 48, 49, 45, 48, 48, 48, 50>>,
     <<57, 57, 45, 57, 57, 57, 57, 45, 57, 57, 57, 57>>}

\* 24-0001-0002B=TRIG_A;TRIG_B
LineB ==
    <<50, 52, 45, 48, 48, 48, 49, 45, 48, 48, 48, 50, 66, 61, 84, 82, 73, 71, 95, 65, 59, 84, 82, 73, 71, 95, 66>>
\* 24-0001-0002D="F1","F2"
LineD ==
    <<50, 52, 45, 48, 48, 48, 49, 45, 48, 48, 48, 50, 68, 61, 34, 70, 49, 34, 44, 34, 70, 50, 34>>
\* 24-0001-0002E="v1","v2"
LineE ==
    <<50, 52, 45, 48, 48, 48, 49, 45, 48, 48, 48, 50, 69, 61, 34, 118, 49, 34, 44, 34, 118, 50, 34>>
\* 24-0001-0002D="G1","G2"
LineD2 ==
    <<50, 52, 45, 48, 48, 48, 49, 45, 48, 48, 48, 50, 68, 61, 34, 71, 49, 34, 44, 34, 71, 50, 34>>
\* 24-0001-0002E= 
LineEBlank ==
    <<50, 52, 45, 48, 48, 48, 49, 45, 48, 48, 48, 50, 69, 61, 32>>
\* 24-0001-0002I=C4_A
LineI ==
    <<50, 52, 45, 48, 48, 48, 49, 45, 48, 48, 48, 50, 73, 61, 67, 52, 95, 65>>
\* 24-0001-0002J="H1"
LineJ ==
    <<50, 52, 45, 48, 48, 48, 49, 45, 48, 48, 48, 50, 74, 61, 34, 72, 49, 34>>
\* 24-0001-0002K="w1"
LineK ==
    <<50, 52, 45, 48, 48, 48, 49, 45, 48, 48, 48, 50, 75, 61, 34, 119, 49, 34>>
\* 24-0001-0002J="H2"
LineJ2 ==
    <<50, 52, 45, 48, 48, 48, 49, 45, 48, 48, 48, 50, 74, 61, 34, 72, 50, 34>>
\* 99-9999-9999D="Z1","Z2"
LineOtherD ==
    <<57, 57, 45, 57, 57, 57, 57, 45, 57, 57, 57, 57, 68, 61, 34, 90, 49, 34, 44, 34, 90, 50, 34>>

\* 24-0001-0002D= "ID=5","F2" (space)
LineDRepeat ==
    <<50, 52, 45, 48, 48, 48, 49, 45, 48, 48, 48, 50, 68, 61, 32, 34, 73, 68, 61, 53, 34, 44, 34, 70, 50, 34, 32>>
\* 24-0001-0002E="E=1","v2"
LineERepeat ==
    <<50, 52, 45, 48, 48, 48, 49, 45, 48, 48, 48, 50, 69, 61, 34, 69, 61, 49, 34, 44, 34, 118, 50, 34>>
\* 24-0001-0002D=D=X
LineDLead ==
    <<50, 52, 45, 48, 48, 48, 49, 45, 48, 48, 48, 50, 68, 61, 68, 61, 88>>
\* 24-0001-0002B= A ; ;B;
LineBSpaced ==
    <<50, 52, 45, 48, 48, 48, 49, 45, 48, 48, 48, 50, 66, 61, 32, 65, 32, 59, 32, 59, 66, 59>>
\* 24-0001-0002B=X;B=1
LineBRepeat ==
    <<50, 52, 45, 48, 48, 48, 49, 45, 48, 48, 48, 50, 66, 61, 88, 59, 66, 61, 49>>
\* 24-0001-0002B=
LineBEmpty ==
    <<50, 52, 45, 48, 48, 48, 49, 45, 48, 48, 48, 50, 66, 61>>
\* 24-0001-0002K="K=9"
LineKRepeat ==
    <<50, 52, 45, 48, 48, 48, 49, 45, 48, 48, 48, 50, 75, 61, 34, 75, 61, 57, 34>>

\* 24-0001-0002I=C4_B
LineI2 ==
    <<50, 52, 45, 48, 48, 48, 49, 45, 48, 48, 48, 50, 73, 61, 67, 52, 95, 66>>

MaxExtractLines == 2

\* the lines the extraction methods are run on: plain payloads, payloads holding the
\* prefix token again, blank and empty payloads, values to trim and to drop
ExtractLinePool ==
    {LineD, LineE, LineB, LineI, LineI2, LineJ, LineK, LineDRepeat, LineERepeat, LineDLead,
     LineEBlank, LineBSpaced, LineBRepeat, LineBEmpty, LineKRepeat, LineOtherD}

ExtractInit ==
    /\ lbl_lines \in SeqsUpTo(ExtractLinePool, MaxExtractLines)
    /\ serial = <<>>
    /\ val_call = "none"
    /\ val_result = Quiet(NoneVal)
    /\ header = <<>>
    /\ record = <<>>
    /\ reports = {}

LblLinePool ==
    {LineB, LineD, LineE, LineD2, LineEBlank, LineI, LineJ, LineK, LineJ2, LineOtherD}

LblInit ==
    /\ lbl_lines \in SeqsUpTo(LblLinePool, MaxLblLines)
    /\ serial = <<>>
    /\ val_call = "none"
    /\ val_result = Quiet(NoneVal)
    /\ header = <<>>
    /\ record = <<>>
    /\ reports = {}

LblIdle ==
    /\ lbl_lines = <<>>
    /\ serial = <<>>
    /\ val_call = "none"
    /\ val_result = Quiet(NoneVal)
    /\ header = <<>>
    /\ record = <<>>
    /\ reports = {}

\* the state after Validator method `name` ran on (lbl_lines, sn) and left `ran`
ValidatorRan(name, sn, ran) ==
    /\ serial' = sn
    /\ val_call' = name
    /\ val_result' = ran
    /\ UNCHANGED <<lbl_lines, header, record, reports, xorVars, loginVars, clickVars, navVars, saveVars>>

ValidateProduct(sn) ==
    ValidatorRan("validate_input_exists_for_product", sn,
                 validate_input_exists_for_product(lbl_lines, sn))

ValidateControl4(sn) ==
    ValidatorRan("validate_input_exists_for_control4", sn,
                 validate_input_exists_for_control4(lbl_lines, sn))

ExtractHeaderAndRecord(sn) ==
    ValidatorRan("extract_header_and_record", sn,
                 extract_header_and_record(lbl_lines, sn))

ExtractHeaderAndRecordC4(sn) ==
    ValidatorRan("extract_header_and_record_c4", sn,
                 extract_header_and_record_c4(lbl_lines, sn))

ExtractTriggerValues(sn) ==
    ValidatorRan("extract_trigger_values", sn, extract_trigger_values(lbl_lines, sn))

ExtractTriggerValuesC4(sn) ==
    ValidatorRan("extract_trigger_values_c4", sn, extract_trigger_values_c4(lbl_lines, sn))

-----------------------------------------------------------------------------
(* The rows and prefixes validate_and_inject_balice is run on *)

MaxFields == 3

\* a row of fields as the .lbl file holds it, and the same without the outer quotes
Row(fields) == Join(fields, FieldDelimiter)
QuotedRow(fields) == <<34>> \o Join(fields, FieldDelimiter) \o <<34>>

\* header field names: "P Znacka balice" and "F"
HeaderNames == {FieldBalice, <<70>>}

\* record field values: v, x" and ,"z
RecordValues == {<<118>>, <<120, 34>>, <<44, 34, 122>>}

HeaderRows ==
    {QuotedRow(fields) : fields \in SeqsUpTo(HeaderNames, MaxFields)}
        \cup {Row(fields) : fields \in SeqsUpTo(HeaderNames, MaxFields)}

RecordRows == {QuotedRow(fields) : fields \in SeqsUpTo(RecordValues, MaxFields)}

\* the prefix with the text after the fourth comma taken whole
PublishedPrefixUnsplit(text) ==
    LET parts == Split(text, <<Comma>>)
    IN  Strip(Join(SubSeq(parts, 5, Len(parts)), <<Comma>>))

\* what check_login leaves once the digest of a record matched: `text` is the record's
\* segments joined by ','
LoggedIn(text) ==
    MatchRecord(<<Sha256Hex(Utf8Encode(Split(text, <<Comma>>)[1])), text>>,
                FreshDecrypter, NoneVal)

\* the prefix check_login publishes for that record
PublishedPrefix(text) == LoggedIn(text).global

\* records of the credential file, decoded: p,i,N,J, X (blank at both ends); p,i,N,J,x","y;
\* p,i,N,J,"; p,i,N,J, (empty prefix)
LoginRecords ==
    {<<112, 44, 105, 44, 78, 44, 74, 44, 32, 88, 32>>,
     <<112, 44, 105, 44, 78, 44, 74, 44, 120, 34, 44, 34, 121>>,
     <<112, 44, 105, 44, 78, 44, 74, 44, 34>>,
     <<112, 44, 105, 44, 78, 44, 74, 44>>}

InjectInit ==
    /\ header \in HeaderRows
    /\ record \in RecordRows
    /\ reports = {}
    /\ lbl_lines = <<>>
    /\ serial = <<>>
    /\ val_call = "none"
    /\ val_result = Quiet(NoneVal)
    /\ \E text \in LoginRecords :
           /\ value_prefix = PublishedPrefix(text)
           /\ decrypter = [i \in Instances |->
                              IF i = 1
                              THEN [LoggedIn(text).self EXCEPT !.value_prefix = PublishedPrefix(text)]
                              ELSE FreshDecrypter]
    /\ szv_plain = [exists |-> FALSE, items |-> <<>>]
    /\ szv_file = NoFile
    /\ login = [i \in Instances |-> NoCall]
    /\ file_outcome = NoCall

\* self.validator.validate_and_inject_balice(header, record)
ValidateAndInjectBalice ==
    /\ val_call' = "validate_and_inject_balice"
    /\ val_result' = validate_and_inject_balice(header, record, value_prefix)
    /\ UNCHANGED <<lbl_lines, serial, header, record, reports, xorVars, loginVars, clickVars, navVars, saveVars>>

-----------------------------------------------------------------------------
(* The report files of the model and the calls of extract_my2n_token *)

MaxReportLines == 2

\* My2N Token: ABC
TokenABC ==
    <<77, 121, 50, 78, 32, 84, 111, 107, 101, 110, 58, 32, 65, 66, 67>>
\* My2N Token: XYZ
TokenXYZ ==
    <<77, 121, 50, 78, 32, 84, 111, 107, 101, 110, 58, 32, 88, 89, 90>>
\* x MY2N TOKEN:  Q-z (blanks)
TokenUpper ==
    <<120, 32, 77, 89, 50, 78, 32, 84, 79, 75, 69, 78, 58, 32, 32, 81, 45, 122, 32>>
\* my2n token:  (blanks)
TokenBlank ==
    <<109, 121, 50, 110, 32, 116, 111, 107, 101, 110, 58, 32, 32>>
\* Serial: 1
NoTokenLine ==
    <<83, 101, 114, 105, 97, 108, 58, 32, 49>>
\* (U+0130)My2N Token:XYZ
TokenDotted ==
    <<304, 77, 121, 50, 78, 32, 84, 111, 107, 101, 110, 58, 88, 89, 90>>

ReportLinePool == {TokenABC, TokenXYZ, TokenUpper, TokenBlank, NoTokenLine, TokenDotted}

\* the text of a report file: each line followed by a newline
RECURSIVE FileText(_)
FileText(lines) ==
    IF lines = <<>> THEN <<>> ELSE Head(lines) \o <<10>> \o FileText(Tail(lines))

ReportTexts == {FileText(lines) : lines \in SeqsUpTo(ReportLinePool, MaxReportLines)}

\* 2024/0001/00010002.24 and 2099/9999/99999999.99, below reports_path
ReportOf24 ==
    <<<<50, 48, 50, 52>>, <<48, 48, 48, 49>>, <<48, 48, 48, 49, 48, 48, 48, 50, 46, 50, 52>>>>
ReportOf99 ==
    <<<<50, 48, 57, 57>>, <<57, 57, 57, 57>>, <<57, 57, 57, 57, 57, 57, 57, 57, 46, 57, 57>>>>

\* the report of 24-0001-0002: none, one that cannot be read, or one of the texts
ReportsOf24 ==
    {{}, {[path |-> ReportOf24, readable |-> FALSE, text |-> <<>>]}}
        \cup {{[path |-> ReportOf24, readable |-> TRUE, text |-> text]} : text \in ReportTexts}

\* the report of 99-9999-9999: none, or one holding a token
ReportsOf99 ==
    {{}, {[path |-> ReportOf99, readable |-> TRUE, text |-> FileText(<<TokenABC>>)]}}

\* the serial numbers handed to extract_my2n_token: the two of Serials, and 24-0001,
\* 24-0001-0002-7 and 240001
My2nSerials ==
    Serials \cup {<<50, 52, 45, 48, 48, 48, 49>>, <<50, 52, 45, 48, 48, 48, 49, 45, 48, 48, 48, 50, 45, 55>>, <<50, 52, 48, 48, 48, 49>>}

My2nInit ==
    /\ \E own \in ReportsOf24, other \in ReportsOf99 : reports = own \cup other
    /\ lbl_lines = <<>>
    /\ serial = <<>>
    /\ val_call = "none"
    /\ val_result = Quiet(NoneVal)
    /\ header = <<>>
    /\ record = <<>>

\* self.validator.extract_my2n_token(self.serial_input, reports_path)
ExtractMy2nToken(sn) ==
    /\ serial' = sn
    /\ val_call' = "extract_my2n_token"
    /\ val_result' = extract_my2n_token(sn, reports)
    /\ UNCHANGED <<lbl_lines, header, record, reports, xorVars, loginVars, clickVars, navVars, saveVars>>

-----------------------------------------------------------------------------
(* The configurations and windows print_button_click is run on *)

MaxGroupItems == 2

\* 9151301 and 9151304
ConfiguredProducts ==
    {<<57, 49, 53, 49, 51, 48, 49>>, <<57, 49, 53, 49, 51, 48, 52>>}

\* the values of the options product, control4 and my2n: products joined by ", "
RawLists == {Join(items, <<44, 32>>) : items \in SeqsUpTo(ConfiguredProducts, MaxGroupItems)}

\* the section ProductTriggerMapping, its three options in the order of config.ini
TriggerMapping(product, control4, my2n) ==
    <<[section_key |-> "product", raw_list |-> product],
      [section_key |-> "control4", raw_list |-> control4],
      [section_key |-> "my2n", raw_list |-> my2n]>>

\* the product names of the window: 9151301, 9151304 between blanks, 9151302
WindowProducts ==
    {<<57, 49, 53, 49, 51, 48, 49>>, <<32, 57, 49, 53, 49, 51, 48, 52, 32>>, <<57, 49, 53, 49, 51, 48, 50>>}

\* what the input field holds: 24-0001-0002 between blanks, 99-9999-9999, 24-0001
SerialTexts ==
    {<<32, 50, 52, 45, 48, 48, 48, 49, 45, 48, 48, 48, 50, 32>>, <<57, 57, 45, 57, 57, 57, 57, 45, 57, 57, 57, 57>>, <<50, 52, 45, 48, 48, 48, 49>>}

\* 24-0001-0002D="F1","P Znacka balice","F3"
LineDBalice ==
    <<50, 52, 45, 48, 48, 48, 49, 45, 48, 48, 48, 50, 68, 61, 34, 70, 49, 34, 44, 34, 80, 32, 90, 110, 97, 99, 107, 97, 32, 98, 97, 108, 105, 99, 101, 34, 44, 34, 70, 51, 34>>
\* 24-0001-0002E="v1","v2","v3"
LineEBalice ==
    <<50, 52, 45, 48, 48, 48, 49, 45, 48, 48, 48, 50, 69, 61, 34, 118, 49, 34, 44, 34, 118, 50, 34, 44, 34, 118, 51, 34>>

\* the .lbl file of the order: none, the six lines of 24-0001-0002, or its Product
\* lines alone, the header naming the field of the prefix
OrderFiles ==
    {<<>>, <<LineB, LineD, LineE, LineI, LineJ, LineK>>, <<LineB, LineDBalice, LineEBalice>>}

NoClick == [call |-> "none"]

ClickInit ==
    /\ \E product \in RawLists, control4 \in RawLists, my2n \in RawLists :
           config = ConfigParserObject(TriggerMapping(product, control4, my2n))
    /\ product_name \in WindowProducts
    /\ click = NoClick
    /\ lbl_lines \in OrderFiles
    /\ serial = <<>>
    /\ val_call = "none"
    /\ val_result = Quiet(NoneVal)
    /\ header = <<>>
    /\ record = <<>>
    /\ reports = {[path |-> ReportOf24, readable |-> TRUE, text |-> FileText(<<TokenABC>>)]}
    \* the window opens after a login: the prefix "X" is published
    /\ szv_plain = [exists |-> FALSE, items |-> <<>>]
    /\ szv_file = NoFile
    /\ value_prefix = <<88>>
    /\ decrypter = [i \in Instances |-> FreshDecrypter]
    /\ login = [i \in Instances |-> NoCall]
    /\ file_outcome = NoCall

ClickIdle ==
    /\ config = ConfigParserObject(<<>>)
    /\ product_name = <<>>
    /\ click = NoClick

\* print_button.clicked with `text` in the input field
PrintButtonClick(text) ==
    /\ click' = [call |-> "print_button_click", text |-> text]
                    @@ print_button_click(PrintControllerObject(config), text, product_name,
                                          lbl_lines, value_prefix, reports)
    /\ UNCHANGED <<config, product_name, lblVars, xorVars, loginVars, navVars, saveVars>>

-----------------------------------------------------------------------------
(* The windows of the model and the calls made on WindowStackManager *)

MaxWindows == 3
MaxPushes == 4

Windows == 1..MaxWindows

NoNav == [call |-> "none"]

NavIdle ==
    /\ stack = <<>>
    /\ visible = {}
    /\ fading = {}
    /\ gone = {}
    /\ pushes = <<>>
    /\ nav = NoNav

\* WindowStackManager(): the empty stack; no window is shown yet
NavInit == NavIdle

\* the state after a call on the stack manager left `left`
StackCalled(call, window, left) ==
    /\ stack' = left.stack
    /\ visible' = left.visible
    /\ nav' = [call |-> call, window |-> window, value |-> left.value,
               before |-> [stack |-> stack, visible |-> visible]]

\* window_stack.push(window), the window not being in the stack
Push(window) ==
    /\ Len(pushes) < MaxPushes
    /\ \A k \in 1..Len(stack) : stack[k] # window
    /\ StackCalled("push", window, push(stack, visible, window))
    /\ pushes' = Append(pushes, window)
    /\ UNCHANGED <<fading, gone, xorVars, loginVars, lblVars, clickVars, saveVars>>

\* window_stack.pop()
Pop ==
    /\ StackCalled("pop", 0, pop(stack, visible, gone))
    /\ UNCHANGED <<fading, gone, pushes, xorVars, loginVars, lblVars, clickVars, saveVars>>

\* a controller opens a window it has just created: open_work_order_window,
\* open_app_window, launch_login
OpenWindow(window) ==
    /\ \A k \in 1..Len(pushes) : pushes[k] # window
    /\ StackCalled("push", window, push(stack, visible, window))
    /\ pushes' = Append(pushes, window)
    /\ UNCHANGED <<fading, gone, xorVars, loginVars, lblVars, clickVars, saveVars>>

\* handle_exit of the window the operator sees: effects.fade_out(window) starts the
\* animation and returns; the window stays shown while it runs
HandleExit(window) ==
    /\ window \in visible
    /\ window \notin fading
    /\ fading' = fading \cup {window}
    /\ nav' = [call |-> "fade_out", window |-> window, value |-> 0,
               before |-> [stack |-> stack, visible |-> visible]]
    /\ UNCHANGED <<stack, visible, gone, pushes, xorVars, loginVars, lblVars, clickVars, saveVars>>

\* the animation of `window` finished: on_finished() calls deleteLater(), the window is
\* deleted and its destroyed signal runs _on_window_closed()
FadeFinished(window) ==
    /\ window \in fading
    /\ fading' = fading \ {window}
    /\ gone' = gone \cup {window}
    /\ StackCalled("destroyed", window,
                   on_window_closed(stack, visible \ {window}, gone \cup {window}))
    /\ UNCHANGED <<pushes, xorVars, loginVars, lblVars, clickVars, saveVars>>

-----------------------------------------------------------------------------
(* The disks, paths and faults the save-and-print methods are run on *)

MaxTriggers == 2

\* "H", "R" and an older file "old"
SaveHeader == <<34, 72, 34>>
SaveRecord == <<34, 82, 34>>
OldOutput == <<111, 108, 100, 10>>

\* the values of the output path options and of trigger_path: the option missing, empty,
\* or a path
RawPaths == {NoneVal, <<>>, <<111, 117, 116>>}

\* the trigger names TRIG_A and TRIG_B
TriggerNames == {<<84, 82, 73, 71, 95, 65>>, <<84, 82, 73, 71, 95, 66>>}

TriggerLists == SeqsUpTo(TriggerNames, MaxTriggers)

Faults ==
    {Fault(at, 0) : at \in {"none", "unlink", "open", "first", "second"}}
        \cup {Fault("touch", k) : k \in 1..MaxTriggers}

NoSave == [call |-> "none"]

SaveIdle ==
    /\ disk = Disk(NoneVal, FALSE, {})
    /\ save = NoSave

\* the disk a click finds: no output file or an old one, the trigger directory empty
ClickDisk ==
    /\ \E output \in {NoneVal, OldOutput} : disk = Disk(output, TRUE, {})
    /\ save = NoSave

\* before the call: no output file or an old one, the trigger directory there or not,
\* with the trigger files the print service has not consumed yet
SaveInit ==
    /\ \E output \in {NoneVal, OldOutput}, trigger_dir \in BOOLEAN :
           \E triggers \in (IF trigger_dir THEN SUBSET TriggerNames ELSE {{}}) :
               disk = Disk(output, trigger_dir, triggers)
    /\ save = NoSave

\* the state after method `call` ran with these inputs and left `left`
SaveCalled(call, raw_output, first, second, raw_path, fault, left) ==
    /\ save = NoSave
    /\ disk' = left.disk
    /\ save' = [call |-> call, raw_output |-> raw_output, first |-> first,
                second |-> second, raw_path |-> raw_path, fault |-> fault,
                before |-> disk, trace |-> left.trace, outcome |-> left.outcome,
                shown |-> left.shown, reset |-> left.reset]
    /\ UNCHANGED <<xorVars, loginVars, lblVars, clickVars, navVars>>

ProductSaveAndPrint(raw_output, trigger_values, raw_path, fault) ==
    SaveCalled("product_save_and_print", raw_output, SaveHeader, SaveRecord, raw_path, fault,
               LogicProductSaveAndPrint(disk, raw_output, SaveHeader, SaveRecord,
                                        trigger_values, raw_path, fault))

Control4SaveAndPrint(raw_output, trigger_values, raw_path, fault) ==
    SaveCalled("control4_save_and_print", raw_output, SaveHeader, SaveRecord, raw_path, fault,
               LogicControl4SaveAndPrint(disk, raw_output, SaveHeader, SaveRecord,
                                         trigger_values, raw_path, fault))

My2nSaveAndPrint(raw_output, sn, raw_path, fault) ==
    SaveCalled("my2n_save_and_print", raw_output, My2nHeaderLine,
               My2nRecordLine(sn, <<65, 66, 67>>), raw_path, fault,
               LogicMy2nSaveAndPrint(disk, raw_output, sn, <<65, 66, 67>>, raw_path, fault))

-----------------------------------------------------------------------------
(* Specifications *)

InitXor ==
    /\ \E bytes \in XorInputs : XorEnter(bytes) /\ xor_orig = bytes
    /\ xor_pass = 1
    /\ LoginIdle
    /\ LblIdle
    /\ ClickIdle
    /\ NavIdle
    /\ SaveIdle

NextXor == XorLoopBody \/ XorAgain

SpecXor == InitXor /\ [][NextXor]_vars

InitLogin == XorIdle /\ LoginInit /\ LblIdle /\ ClickIdle /\ NavIdle /\ SaveIdle

NextLogin ==
    \/ DecodingFile
    \/ \E i \in Instances :
           \/ SzvDecryptInit(i)
           \/ \E password \in Passwords : CheckLogin(i, password)

SpecLogin == InitLogin /\ [][NextLogin]_vars

InitLbl == XorIdle /\ LoginIdle /\ LblInit /\ ClickIdle /\ NavIdle /\ SaveIdle

NextLbl ==
    \E sn \in Serials :
        \/ ValidateProduct(sn)
        \/ ValidateControl4(sn)
        \/ ExtractHeaderAndRecord(sn)
        \/ ExtractHeaderAndRecordC4(sn)

SpecLbl == InitLbl /\ [][NextLbl]_vars

InitExtract == XorIdle /\ LoginIdle /\ ExtractInit /\ ClickIdle /\ NavIdle /\ SaveIdle

NextExtract ==
    \E sn \in Serials :
        \/ ExtractHeaderAndRecord(sn)
        \/ ExtractHeaderAndRecordC4(sn)
        \/ ExtractTriggerValues(sn)
        \/ ExtractTriggerValuesC4(sn)

SpecExtract == InitExtract /\ [][NextExtract]_vars

InitInject == XorIdle /\ InjectInit /\ ClickIdle /\ NavIdle /\ SaveIdle

NextInject == ValidateAndInjectBalice

SpecInject == InitInject /\ [][NextInject]_vars

InitMy2n == XorIdle /\ LoginIdle /\ My2nInit /\ ClickIdle /\ NavIdle /\ SaveIdle

NextMy2n == \E sn \in My2nSerials : ExtractMy2nToken(sn)

SpecMy2n == InitMy2n /\ [][NextMy2n]_vars

InitClick == XorIdle /\ ClickInit /\ NavIdle /\ ClickDisk

NextClick == \E text \in SerialTexts : PrintButtonClick(text)

SpecClick == InitClick /\ [][NextClick]_vars

InitStack == XorIdle /\ LoginIdle /\ LblIdle /\ ClickIdle /\ NavInit /\ SaveIdle

NextStack == Pop \/ \E window \in Windows : Push(window)

SpecStack == InitStack /\ [][NextStack]_vars

NextClose ==
    \E window \in Windows :
        \/ OpenWindow(window)
        \/ HandleExit(window)
        \/ FadeFinished(window)

SpecClose == InitStack /\ [][NextClose]_vars

InitSave == XorIdle /\ LoginIdle /\ LblIdle /\ ClickIdle /\ NavIdle /\ SaveInit

NextSave ==
    \E raw_output \in RawPaths, raw_path \in RawPaths, fault \in Faults :
        \/ \E trigger_values \in TriggerLists :
               \/ ProductSaveAndPrint(raw_output, trigger_values, raw_path, fault)
               \/ Control4SaveAndPrint(raw_output, trigger_values, raw_path, fault)
        \/ \E sn \in Serials : My2nSaveAndPrint(raw_output, sn, raw_path, fault)

SpecSave == InitSave /\ [][NextSave]_vars

-----------------------------------------------------------------------------
(* Claims about decoding_line's XOR step, under SpecXor *)

\* C7: the XOR step is an involution: the loop run on its own output gives back the
\* bytes the first run started from, for every length (0 and multiples of 32 included)
XorStepTwiceIsIdentity ==
    (xor_pass = 2 /\ XorDone) => decoded_data = xor_orig

\* C7 witness: 32 bytes went through the loop twice; the first run changed them
XorStepTwiceWitness ==
    /\ xor_pass = 2
    /\ XorDone
    /\ Len(xor_orig) = 32
    /\ encoded_data # xor_orig
    /\ decoded_data = xor_orig

\* the key the claim gives for index i of n bytes
ClaimedKey(n, i) == ((n % 32) + 5 * i) % 32

\* C8: decoded[i] = byte[i] XOR ((((n mod 32) + 5*i) mod 32) XOR 6) for every index the
\* loop has passed, the rolling key is the claimed one and stays in 0..31, and every
\* decoded value stays in 0..255
XorClosedFormAndRanges ==
    /\ int_xor \in 0..31
    /\ int_xor = ClaimedKey(Len(encoded_data), xor_i)
    /\ \A j \in 1..xor_i :
           decoded_data[j] =
               BitXor(encoded_data[j], BitXor(ClaimedKey(Len(encoded_data), j - 1), 6))
    /\ \A j \in 1..Len(decoded_data) : decoded_data[j] \in 0..255

\* C8 witness: the loop has run over 33 bytes, the key having wrapped around 32
XorClosedFormWitness ==
    /\ xor_pass = 1
    /\ XorDone
    /\ Len(encoded_data) = 33
    /\ decoded_data # encoded_data
    /\ decoded_data[33] = BitXor(encoded_data[33], BitXor(1, 6))

-----------------------------------------------------------------------------
(* Claims about check_login and decoding_file, under SpecLogin *)

\* the text of a record of the credential source (code page 1250), if it has one
Decodable(item) ==
    item.kind = "record" /\ \A j \in 1..Len(item.bytes) : Cp1250Char(item.bytes[j]) # -1

TextOf(item) == [j \in 1..Len(item.bytes) |-> Cp1250Char(item.bytes[j])]

\* segment 0 of the decoded record: the text before the first NAK
SecretOf(item) == Split(TextOf(item), <<21>>)[1]

\* the comma-separated parts of the record, its segments being joined by commas
PartsOf(item) ==
    Split([j \in 1..Len(item.bytes) |->
              IF TextOf(item)[j] = 21 THEN 44 ELSE TextOf(item)[j]], <<44>>)

\* a record that supplies surname, given name and prefix (parts 2, 3 and 4)
WellFormed(item) == Decodable(item) /\ Len(PartsOf(item)) >= 5

\* the positions of the records whose secret is the password
Matching(password) ==
    {k \in 1..Len(szv_plain.items) :
        Decodable(szv_plain.items[k]) /\ SecretOf(szv_plain.items[k]) = password}

FirstOf(S) == CHOOSE k \in S : \A m \in S : k <= m

AllDecodable ==
    szv_plain.exists /\ \A k \in 1..Len(szv_plain.items) : Decodable(szv_plain.items[k])

AllWellFormed ==
    szv_plain.exists /\ \A k \in 1..Len(szv_plain.items) : WellFormed(szv_plain.items[k])

\* the prefix field (part index 4) of record k, trimmed
PrefixOf(k) == Strip(PartsOf(szv_plain.items[k])[5])

\* C1: on a file of well-formed records check_login(p) returns true exactly when some
\* record's secret is p, and then the published prefix is the trimmed part 4 of the
\* (first) matching record; a password matching no record gets false
LoginTrueIffSecretMatches ==
    \A i \in Instances :
        (login[i].call = "check_login" /\ AllWellFormed) =>
            IF Matching(login[i].password) = {}
            THEN login[i].outcome = Return(FALSE)
            ELSE /\ login[i].outcome = Return(TRUE)
                 /\ login[i].published = PrefixOf(FirstOf(Matching(login[i].password)))

\* C1 witness: a login with "q" succeeded on a file of two well-formed records and
\* published "Y", the prefix field of the matching record without its no-break space
LoginTrueWitness ==
    \E i \in Instances :
        /\ login[i].call = "check_login"
        /\ AllWellFormed
        /\ Len(szv_plain.items) = 2
        /\ login[i].password = <<113>>
        /\ login[i].outcome = Return(TRUE)
        /\ login[i].published = <<89>>
        /\ value_prefix = <<89>>

\* C2 (as claimed): the first record whose digest matches decides: well-formed, the call
\* returns true and publishes its prefix; malformed, the call returns false; later
\* records with the same digest play no part
FirstDigestMatchDecides ==
    \A i \in Instances :
        (login[i].call = "check_login" /\ AllDecodable
            /\ Matching(login[i].password) # {}) =>
            LET k == FirstOf(Matching(login[i].password))
            IN  IF WellFormed(szv_plain.items[k])
                THEN /\ login[i].outcome = Return(TRUE)
                     /\ login[i].published = PrefixOf(k)
                ELSE login[i].outcome = Return(FALSE)

\* C3 (as claimed): the first digest-matching record has fewer than 5 parts (1 to 4):
\* check_login returns false and raises nothing
MalformedMatchReturnsFalse ==
    \A i \in Instances :
        (login[i].call = "check_login" /\ AllDecodable
            /\ Matching(login[i].password) # {}
            /\ ~WellFormed(szv_plain.items[FirstOf(Matching(login[i].password))])) =>
            login[i].outcome = Return(FALSE)

\* the file cannot be opened, or one of its lines is not hex
OpenOrHexFails ==
    ~szv_plain.exists \/ \E k \in 1..Len(szv_plain.items) : szv_plain.items[k].kind = "raw"

\* loading fails: the file cannot be opened, a line is not hex, or its bytes do not decode
LoadFails == ~AllDecodable

\* C4 (as claimed): decoding_file returns the sentinel False when the file cannot be
\* opened or any line is not hex, never a partial list, and the empty list for an
\* empty file
DecodingFileAllOrNothing ==
    file_outcome.call = "decoding_file" =>
        /\ OpenOrHexFails => file_outcome.outcome = Return(PyFalse)
        /\ (szv_plain.exists /\ szv_plain.items = <<>>) =>
               file_outcome.outcome = Return(PyList(<<>>))
        /\ (Returned(file_outcome.outcome) /\ file_outcome.outcome.value.type = "list") =>
               Len(file_outcome.outcome.value.items) = Len(szv_plain.items)

\* C5 (as claimed): whenever loading or decoding the file fails check_login returns
\* false, for every password, and no exception leaves check_login
LoginFailsClosed ==
    \A i \in Instances :
        (login[i].call = "check_login" /\ LoadFails) => login[i].outcome = Return(FALSE)

\* C6: two runs of check_login on the same file with the same password, whatever state
\* each started from, end the same way and, when true, leave the same surname, given
\* name and published prefix
LoginDeterministic ==
    \A i, j \in Instances :
        (login[i].call = "check_login" /\ login[j].call = "check_login"
            /\ login[i].password = login[j].password) =>
            /\ login[i].outcome = login[j].outcome
            /\ login[i].outcome = Return(TRUE) =>
                   /\ decrypter[i] = decrypter[j]
                   /\ login[i].published = login[j].published

\* C6 witness: two instances that started from different stored and published
\* prefixes both logged in with the same password
LoginDeterministicWitness ==
    \E i, j \in Instances :
        /\ i # j
        /\ login[i].call = "check_login" /\ login[j].call = "check_login"
        /\ login[i].password = login[j].password
        /\ login[i].outcome = Return(TRUE)
        /\ login[i].before.self.value_prefix # login[j].before.self.value_prefix
        /\ login[i].before.global # login[j].before.global
        /\ login[j].before.global # NoneVal
        /\ login[i].before.global # NoneVal

\* instance i and the published prefix are as they were before i's call
LoginLeftAsBefore(i) ==
    /\ decrypter[i] = login[i].before.self
    /\ login[i].published = login[i].before.global

\* C29 (as claimed): a check_login call that fails (wrong password, malformed matching
\* record, load failure) leaves the published prefix and the instance's surname, given
\* name and prefix exactly as they were before the call
FailedLoginLeavesState ==
    \A i \in Instances :
        (login[i].call = "check_login" /\ login[i].outcome # Return(TRUE))
            => LoginLeftAsBefore(i)

\* a call that returned False left everything as it was
FalseLoginLeavesState ==
    \A i \in Instances :
        (login[i].call = "check_login" /\ login[i].outcome = Return(FALSE))
            => LoginLeftAsBefore(i)

-----------------------------------------------------------------------------
(* Claims about Validator, under SpecLbl *)

\* some line is the serial followed by the two characters of `prefix` (and anything)
HasLineFor(prefix) ==
    \E n \in 1..Len(lbl_lines) :
        /\ Len(lbl_lines[n]) >= Len(serial) + 2
        /\ \A c \in 1..Len(serial) : lbl_lines[n][c] = serial[c]
        /\ lbl_lines[n][Len(serial) + 1] = prefix[1]
        /\ lbl_lines[n][Len(serial) + 2] = prefix[2]

\* the keys (serial + prefix) the log names, its text being cut at ", "
LoggedKeys ==
    IF val_result.logged = <<>> THEN {}
    ELSE {Split(val_result.logged, <<44, 32>>)[k] :
              k \in 1..Len(Split(val_result.logged, <<44, 32>>))}

\* the call returned true iff each of the three prefixes has a line, and otherwise
\* false with exactly the prefixes that have none reported
ExistenceCheckExact(prefixes) ==
    /\ val_result.value = (\A q \in prefixes : HasLineFor(q))
    /\ LoggedKeys = {serial \o q : q \in {x \in prefixes : ~HasLineFor(x)}}

\* C9: validate_input_exists_for_product (B=, D=, E=) and
\* validate_input_exists_for_control4 (I=, J=, K=) return true exactly when every one
\* of the three prefixes has a line starting with serial + prefix, and otherwise return
\* false and report exactly the missing ones
RequiredLinesCheckedExactly ==
    /\ val_call = "validate_input_exists_for_product" =>
           ExistenceCheckExact({<<66, 61>>, <<68, 61>>, <<69, 61>>})
    /\ val_call = "validate_input_exists_for_control4" =>
           ExistenceCheckExact({<<73, 61>>, <<74, 61>>, <<75, 61>>})

\* C9 witness: the product check found the B= line of the serial and reported D= and
\* E= as missing, the only D= line belonging to another serial
RequiredLinesWitness ==
    /\ val_call = "validate_input_exists_for_product"
    /\ serial = <<50, 52, 45, 48, 48, 48, 49, 45, 48, 48, 48, 50>>
    /\ Len(lbl_lines) = 2
    /\ \E n \in 1..2 : lbl_lines[n] = LineOtherD
    /\ val_result.value = FALSE
    /\ val_result.logged = serial \o <<68, 61, 44, 32>> \o serial \o <<69, 61>>

\* the positions of the lines starting with the serial and `token`
LinesFor(token) ==
    {n \in 1..Len(lbl_lines) : StartsWith(lbl_lines[n], serial \o token)}

LastOf(S) == CHOOSE n \in S : \A m \in S : m <= n

\* the pair returned takes its header from the last line for `h` and its record from
\* the last line for `r`
PairFromLastLines(h, r) ==
    val_result.value # NoneVal =>
        /\ LinesFor(h) # {} /\ LinesFor(r) # {}
        /\ val_result.value[1] = AfterToken(lbl_lines[LastOf(LinesFor(h))], h)
        /\ val_result.value[2] = AfterToken(lbl_lines[LastOf(LinesFor(r))], r)

\* C10: extract_header_and_record (D=/E=) and extract_header_and_record_c4 (J=/K=) scan
\* every line: with several lines for the same serial + prefix the header (record)
\* returned is that of the last such line
LastMatchWins ==
    /\ val_call = "extract_header_and_record" => PairFromLastLines(<<68, 61>>, <<69, 61>>)
    /\ val_call = "extract_header_and_record_c4" => PairFromLastLines(<<74, 61>>, <<75, 61>>)

\* C10 witness: two D= lines of the serial with different payloads, then the E= line;
\* the header returned is the second one's
LastMatchWitness ==
    /\ val_call = "extract_header_and_record"
    /\ lbl_lines = <<LineD, LineD2, LineE>>
    /\ val_result.value # NoneVal
    /\ val_result.value[1] = SubSeq(LineD2, 15, Len(LineD2))
    /\ val_result.value[1] # SubSeq(LineD, 15, Len(LineD))

-----------------------------------------------------------------------------
(* Claims about the extraction methods of Validator, under SpecExtract *)

\* everything after the first occurrence of `token` in `line`
RestAfter(line, token) ==
    SubSeq(line, FindFrom(line, token, 1) + Len(token), Len(line))

\* the payload of the line: the rest after the token, trimmed
PayloadAfter(line, token) == Strip(RestAfter(line, token))

\* the pair returned holds the payloads of the (last) lines for `h` and for `r`
PairIsPayload(h, r) ==
    val_result.value # NoneVal =>
        /\ val_result.value[1] = PayloadAfter(lbl_lines[LastOf(LinesFor(h))], h)
        /\ val_result.value[2] = PayloadAfter(lbl_lines[LastOf(LinesFor(r))], r)

\* C11 (as claimed): the header (record) extracted from a line starting with serial +
\* prefix is everything after the first occurrence of the prefix token in that line,
\* trimmed, whatever the payload, a payload holding the token again included
PayloadIsAllAfterToken ==
    /\ val_call = "extract_header_and_record" => PairIsPayload(<<68, 61>>, <<69, 61>>)
    /\ val_call = "extract_header_and_record_c4" => PairIsPayload(<<74, 61>>, <<75, 61>>)

\* a line for serial + token exists and the payload of the last one is not empty
Found(token) ==
    /\ LinesFor(token) # {}
    /\ PayloadAfter(lbl_lines[LastOf(LinesFor(token))], token) # <<>>

\* a pair comes back only with both parts found and non-empty, both of them texts;
\* with one absent or empty the call returns None, having shown the error
PairOrNothing(h, r) ==
    /\ val_result.value # NoneVal =>
           /\ Found(h) /\ Found(r)
           /\ Len(val_result.value) = 2
           /\ ~Falsy(val_result.value[1]) /\ ~Falsy(val_result.value[2])
    /\ ~(Found(h) /\ Found(r)) =>
           val_result.value = NoneVal /\ val_result.shown /\ val_result.reset

\* C12: extract_header_and_record (and its Control4 twin) fails as a unit: a pair is
\* returned only when header and record were both found and are non-empty after
\* trimming; if either is absent or empty the result is None, never a pair with one
\* component missing
ExtractFailsAsUnit ==
    /\ val_call = "extract_header_and_record" => PairOrNothing(<<68, 61>>, <<69, 61>>)
    /\ val_call = "extract_header_and_record_c4" => PairOrNothing(<<74, 61>>, <<75, 61>>)

\* C12 witness: the header line is there, the record line holds only a blank: None
ExtractFailsAsUnitWitness ==
    /\ val_call = "extract_header_and_record"
    /\ lbl_lines = <<LineD, LineEBlank>>
    /\ serial = SubSeq(LineD, 1, 12)
    /\ Found(<<68, 61>>)
    /\ ~Found(<<69, 61>>)
    /\ val_result.value = NoneVal
    /\ val_result.shown

\* the payload cut at ';', each segment trimmed, the empty ones dropped, in order
ClaimedTriggers(payload) ==
    LET segments == Split(payload, <<59>>)
    IN  SelectSeq([k \in 1..Len(segments) |-> Strip(segments[k])], LAMBDA v : v # <<>>)

\* None exactly when no line starts with serial + token; otherwise the values of the
\* payload of such a line
TriggersOfPayload(token) ==
    /\ (val_result.value = PyNone) <=> (LinesFor(token) = {})
    /\ val_result.value # PyNone =>
           \E n \in LinesFor(token) :
               val_result.value = PyList(ClaimedTriggers(RestAfter(lbl_lines[n], token)))

\* C13 (as claimed): extract_trigger_values (B=) and extract_trigger_values_c4 (I=)
\* return the payload after the prefix token split on ';', each segment trimmed, empty
\* segments dropped, order kept, and None exactly when no line starts with
\* serial + prefix
TriggerValuesSplitTrimmed ==
    /\ val_call = "extract_trigger_values" => TriggersOfPayload(<<66, 61>>)
    /\ val_call = "extract_trigger_values_c4" => TriggersOfPayload(<<73, 61>>)

\* the list returned holds the values of the first line for `token`
ValuesOfFirstLine(token) ==
    LinesFor(token) # {} =>
        val_result.value = PyList(TriggerValues(lbl_lines[FirstOf(LinesFor(token))], token))

\* C30: with several lines starting with the same serial + trigger prefix (B= or I=),
\* extract_trigger_values and extract_trigger_values_c4 return the values of the first
\* such line, whereas header and record extraction take the last matching line
FirstTriggerLineLastRecordLine ==
    /\ val_call = "extract_trigger_values" => ValuesOfFirstLine(<<66, 61>>)
    /\ val_call = "extract_trigger_values_c4" => ValuesOfFirstLine(<<73, 61>>)
    /\ val_call = "extract_header_and_record" => PairFromLastLines(<<68, 61>>, <<69, 61>>)
    /\ val_call = "extract_header_and_record_c4" => PairFromLastLines(<<74, 61>>, <<75, 61>>)

\* C30 witness: two I= lines of the serial with different values; the values returned
\* are the first one's
FirstTriggerLineWitness ==
    /\ val_call = "extract_trigger_values_c4"
    /\ lbl_lines = <<LineI, LineI2>>
    /\ val_result.value = PyList(<<SubSeq(LineI, 15, Len(LineI))>>)
    /\ val_result.value # PyList(<<SubSeq(LineI2, 15, Len(LineI2))>>)

-----------------------------------------------------------------------------
(* Claims about validate_and_inject_balice, under SpecInject *)

\* the number of fields of a row: its '","'-separated segments
FieldCount(row) == Len(Split(row, FieldDelimiter))

\* C14: whenever validate_and_inject_balice returns a record, that record split on '","'
\* has as many fields as the input record, for every header, record and prefix that
\* check_login can publish
InjectKeepsFieldCount ==
    (val_call = "validate_and_inject_balice" /\ val_result.value # NoneVal) =>
        FieldCount(val_result.value) = FieldCount(record)

\* C14 witness: the prefix x" (what the comma split leaves of x","y) went into the middle
\* field of a three-field record whose neighbour starts with ,"
InjectKeepsFieldCountWitness ==
    /\ val_call = "validate_and_inject_balice"
    /\ value_prefix = <<120, 34>>
    /\ header = QuotedRow(<<<<70>>, FieldBalice, <<70>>>>)
    /\ record = QuotedRow(<<<<118>>, <<118>>, <<44, 34, 122>>>>)
    /\ val_result.value # NoneVal
    /\ val_result.value # record
    /\ FieldCount(val_result.value) = 3

\* the fields of a row, its enclosing quotes (if it has both) set aside
QuotedFields(row) ==
    IF Len(row) >= 2 /\ row[1] = 34 /\ row[Len(row)] = 34
    THEN Split(SubSeq(row, 2, Len(row) - 1), FieldDelimiter)
    ELSE Split(row, FieldDelimiter)

\* the positions of the header fields named "P Znacka balice"
BalicePositions ==
    {k \in 1..Len(QuotedFields(header)) : QuotedFields(header)[k] = FieldBalice}

\* C15 (as claimed): validate_and_inject_balice returns None exactly when the header has
\* no field named "P Znacka balice" or that field's index is not below the record's
\* field count; otherwise it succeeds wherever the field sits, first and last field of
\* the quoted row included
InjectFailsExactlyWhenUnlocated ==
    val_call = "validate_and_inject_balice" =>
        ((val_result.value = NoneVal) <=>
            \/ BalicePositions = {}
            \/ FirstOf(BalicePositions) > FieldCount(record))

\* the position of the first '","'-separated segment of the header that is the name
SegmentIndex ==
    FirstOf({k \in 1..FieldCount(header) : Split(header, FieldDelimiter)[k] = FieldBalice})

\* the record returned is the input record with the field at the located index replaced
\* by the published prefix, all other fields as they were and in their order
OnlyLocatedFieldReplaced ==
    (val_call = "validate_and_inject_balice" /\ val_result.value # NoneVal) =>
        LET before == Split(record, FieldDelimiter)
            after == Split(val_result.value, FieldDelimiter)
        IN  /\ Len(after) = Len(before)
            /\ \A k \in 1..Len(before) :
                   after[k] = IF k = SegmentIndex THEN value_prefix ELSE before[k]

\* C16: on success validate_and_inject_balice returns the input record with the field
\* at the index of "P Znacka balice" replaced by the currently published prefix, every
\* other field and the field order unchanged; the header is not modified
InjectReplacesOneField ==
    /\ [](OnlyLocatedFieldReplaced)
    /\ [][val_call' = "validate_and_inject_balice" => header' = header]_vars

\* C16 witness: the prefix X replaced the second of three fields, the first and the third
\* being what they were
InjectReplacesOneFieldWitness ==
    /\ val_call = "validate_and_inject_balice"
    /\ value_prefix = <<88>>
    /\ header = QuotedRow(<<<<70>>, FieldBalice, <<70>>>>)
    /\ record = QuotedRow(<<<<120, 34>>, <<118>>, <<44, 34, 122>>>>)
    /\ val_result.value = QuotedRow(<<<<120, 34>>, <<88>>, <<44, 34, 122>>>>)

-----------------------------------------------------------------------------
(* Claims about extract_my2n_token, under SpecMy2n *)

\* the serial cut at '-'
SerialParts == Split(serial, <<45>>)

\* reports_root / '20'+p0 / p1 / (p1 + p2 + '.' + p0), for a serial p0-p1-p2
ClaimedReport ==
    <<<<50, 48>> \o SerialParts[1], SerialParts[2],
      SerialParts[2] \o SerialParts[3] \o <<46>> \o SerialParts[1]>>

\* the call was made with a three-part serial whose report file is there and readable
ReportWasRead ==
    /\ val_call = "extract_my2n_token"
    /\ Len(SerialParts) = 3
    /\ \E f \in reports : f.path = ClaimedReport /\ f.readable

\* the lines of that report file
ReportLines == SplitLines((CHOOSE f \in reports : f.path = ClaimedReport).text)

\* the letter c is the marker's character m, in either case
SameLetter(c, m) == c = m \/ (m \in 97..122 /\ c = m - 32)

\* the positions at which `line` holds "my2n token:", case set aside
MarkerPositions(line) ==
    {k \in 1..Len(line) :
        /\ k + Len(token_prefix) - 1 <= Len(line)
        /\ \A j \in 1..Len(token_prefix) : SameLetter(line[k + j - 1], token_prefix[j])}

\* the lines of the report that hold the marker
MarkerLines == {n \in 1..Len(ReportLines) : MarkerPositions(ReportLines[n]) # {}}

\* a report file holding `line` alone, where the report of the serial is
ReportOfLine(line) ==
    {[path |-> ClaimedReport, readable |-> TRUE, text |-> line \o <<10>>]}

\* C17: with several lines holding 'my2n token:' the value returned is the one taken
\* from the last such line in file order, never from an earlier one: the call leaves
\* what it leaves on a report made of that last line alone, and 'My2N Token: ABC'
\* followed by 'My2N Token: XYZ' gives XYZ
LastTokenLineDecides ==
    (ReportWasRead /\ MarkerLines # {}) =>
        /\ val_result =
               extract_my2n_token(serial, ReportOfLine(ReportLines[LastOf(MarkerLines)]))
        /\ ReportLines = <<TokenABC, TokenXYZ>> => val_result.value = <<88, 89, 90>>

\* C17 witness: the report holds 'My2N Token: ABC' then 'My2N Token: XYZ'; XYZ came back
LastTokenLineWitness ==
    /\ ReportWasRead
    /\ ReportLines = <<TokenABC, TokenXYZ>>
    /\ MarkerLines = {1, 2}
    /\ val_result.value = <<88, 89, 90>>

\* the original-case text after the marker of `line`, trimmed
TextAfterMarker(line) ==
    Strip(SubSeq(line, FirstOf(MarkerPositions(line)) + Len(token_prefix), Len(line)))

\* C18 (as claimed): the marker is located case-insensitively anywhere in the line and
\* the original-case text after it, trimmed, is returned; no line holding the marker
\* gives the missing result, and a last marker line with nothing after the marker gives
\* the empty-value failure even if an earlier line carries a token
TokenIsTextAfterMarker ==
    ReportWasRead =>
        IF MarkerLines = {}
        THEN val_result.value = NoneVal /\ val_result.logged = LogNoToken
        ELSE IF TextAfterMarker(ReportLines[LastOf(MarkerLines)]) = <<>>
        THEN val_result.value = NoneVal /\ val_result.logged = LogEmptyToken
        ELSE val_result.value = TextAfterMarker(ReportLines[LastOf(MarkerLines)])

\* C19: extract_my2n_token fails with the invalid-format result unless the serial
\* splits on '-' into exactly 3 parts; for a serial p0-p1-p2 it looks at the file
\* reports_root/'20'+p0/p1/(p1+p2+'.'+p0) and at no other, and fails with the missing
\* result when that file does not exist
ReportPathFromSerial ==
    val_call = "extract_my2n_token" =>
        /\ (val_result.logged = LogInvalidSerial) <=> (Len(SerialParts) # 3)
        /\ Len(SerialParts) # 3 =>
               /\ val_result.value = NoneVal /\ val_result.shown
               /\ val_result.probed = {}
        /\ Len(SerialParts) = 3 =>
               /\ val_result.probed = {ClaimedReport}
               /\ (\A f \in reports : f.path # ClaimedReport) =>
                      /\ val_result.value = NoneVal /\ val_result.shown
                      /\ val_result.logged = LogNoReport(ClaimedReport)

\* C19 witness: 24-0001-0002 has no report while 99-9999-9999 has one holding a token:
\* only 2024/0001/00010002.24 was looked at and the result is the missing one
ReportPathFromSerialWitness ==
    /\ val_call = "extract_my2n_token"
    /\ serial = <<50, 52, 45, 48, 48, 48, 49, 45, 48, 48, 48, 50>>
    /\ reports # {}
    /\ \A f \in reports : f.path = ReportOf99
    /\ val_result.probed = {ReportOf24}
    /\ val_result.value = NoneVal

-----------------------------------------------------------------------------
(* Claims about print_button_click, under SpecClick *)

ProtocolGroups == {"product", "control4", "my2n"}

\* the products of group g's configured list: its comma-separated items, trimmed
ConfiguredList(g) ==
    UNION {{Strip(Split(config.mapping[k].raw_list, <<44>>)[n]) :
                n \in 1..Len(Split(config.mapping[k].raw_list, <<44>>))} :
           k \in {m \in DOMAIN config.mapping : config.mapping[m].section_key = g}}

\* the groups the product of the window is a member of
MemberGroups == {g \in ProtocolGroups : CleanedProductName(product_name) \in ConfiguredList(g)}

\* a click that passed the serial format check with a .lbl file to load
ClickOnValidSerial ==
    /\ click.call = "print_button_click"
    /\ MatchesSerialPattern(serial_input(click.text))
    /\ lbl_lines # <<>>

\* C20: in one click the branches that run are exactly those of the groups whose list
\* holds the product: every such branch (several when the product is in several groups),
\* no other, and none for a product in no group (all writes are made inside the branches)
BranchesFollowMembership ==
    ClickOnValidSerial => click.entered = MemberGroups

\* a click for a product of the groups product and my2n ended in AttributeError with
\* no branch entered
ClickRaisedBeforeBranches ==
    /\ ClickOnValidSerial
    /\ {"product", "my2n"} \subseteq MemberGroups
    /\ click.outcome = Raise("AttributeError")
    /\ click.entered = {}

\* the serial number the click read from the input field
ClickSerial == serial_input(click.text)

\* what the Product steps give on the .lbl lines of the order
ClickHeaderRecord == extract_header_and_record(lbl_lines, ClickSerial).value
ClickInjected ==
    validate_and_inject_balice(ClickHeaderRecord[1], ClickHeaderRecord[2], value_prefix)
ClickTriggerValues == extract_trigger_values(lbl_lines, ClickSerial).value

\* required lines, header and record, injection and non-empty B= values all succeed
ProductStepsSucceed ==
    /\ validate_input_exists_for_product(lbl_lines, ClickSerial).value
    /\ ClickHeaderRecord # NoneVal
    /\ "raised" \notin DOMAIN ClickInjected
    /\ ClickInjected.value # NoneVal
    /\ ClickTriggerValues \notin {PyNone, PyList(<<>>)}

\* the Control4 steps stop at the first of them
Control4StepFails == ~validate_input_exists_for_control4(lbl_lines, ClickSerial).value

\* a click for a member of the groups product and control4 whose Product steps succeed
\* and whose Control4 lines are missing
ProductThenControl4Failure ==
    /\ ClickOnValidSerial
    /\ {"product", "control4"} \subseteq MemberGroups
    /\ ProductStepsSucceed
    /\ Control4StepFails

\* the output file holds the extracted header and the injected record, one per line
ProductOutputWritten ==
    disk.output = ClickHeaderRecord[1] \o <<10>> \o ClickInjected.value \o <<10>>

\* a trigger file of every B= value is in the trigger directory
ProductTriggersTouched ==
    \A k \in 1..Len(ClickTriggerValues.items) : ClickTriggerValues.items[k] \in disk.triggers

FailedBranchAbortsOnlyItself ==
    (/\ ClickOnValidSerial
     /\ "product" \in MemberGroups
     /\ ~validate_input_exists_for_product(lbl_lines, ClickSerial).value)
        => (MemberGroups \ {"product"}) \subseteq click.entered

\* C23: every click returns, with the serial input cleared and refocused, and a click
\* that stopped on a bad serial format, an unloadable .lbl file or missing required
\* lines has shown a message
ClickEndsInputReady ==
    click.call = "print_button_click" =>
        /\ click.outcome = Return(NoneVal)
        /\ click.reset
        /\ (\/ ~MatchesSerialPattern(ClickSerial)
            \/ lbl_lines = <<>>
            \/ ("product" \in MemberGroups
                    /\ ~validate_input_exists_for_product(lbl_lines, ClickSerial).value))
               => click.shown

-----------------------------------------------------------------------------
(* Claims about WindowStackManager, under SpecStack and SpecClose *)

\* the top of a non-empty stack is shown, the windows below it are not
TopOnlyVisible ==
    stack # <<>> =>
        /\ stack[Len(stack)] \in visible
        /\ \A k \in 1..(Len(stack) - 1) : stack[k] \notin visible

\* when `window` was last pushed: its last position in the log of pushes
LastPush(window) ==
    CHOOSE k \in 1..Len(pushes) :
        pushes[k] = window /\ \A m \in (k + 1)..Len(pushes) : pushes[m] # window

\* the window of stack s that was pushed most recently
MostRecentOf(s) ==
    CHOOSE w \in {s[k] : k \in 1..Len(s)} :
        \A k \in 1..Len(s) : LastPush(s[k]) <= LastPush(w)

\* C24: after any pushes and pops of distinct windows the top of a non-empty stack is
\* visible and every other window of the stack hidden; pop on an empty stack returns
\* None and changes nothing; pop on a non-empty stack returns, and removes, the most
\* recently pushed window still in the stack
StackKeepsTopVisible ==
    /\ TopOnlyVisible
    /\ nav.call = "pop" =>
           IF nav.before.stack = <<>>
           THEN nav.value = 0 /\ stack = <<>> /\ visible = nav.before.visible
           ELSE /\ nav.value = MostRecentOf(nav.before.stack)
                /\ stack = SelectSeq(nav.before.stack, LAMBDA w : w # nav.value)

\* C24 witness: a pop on a stack of three gave the third window and shows the second
\* again, which was hidden
StackKeepsTopVisibleWitness ==
    /\ nav.call = "pop"
    /\ Len(nav.before.stack) = 3
    /\ nav.value = nav.before.stack[3]
    /\ Len(stack) = 2
    /\ stack[2] \notin nav.before.visible
    /\ stack[2] \in visible
    /\ stack[1] \notin visible

\* C25 (as claimed): when a window's destroyed signal fires, the window removed from
\* the stack is the window that was destroyed, whatever the operator did while the
\* fade-out ran
DestroyedWindowIsRemoved ==
    nav.call = "destroyed" => nav.value = nav.window

\* the destroyed signal of a window that was on top of the stack removed that window
TopDestroyedIsRemoved ==
    (nav.call = "destroyed" /\ nav.before.stack # <<>>
        /\ nav.before.stack[Len(nav.before.stack)] = nav.window)
        => nav.value = nav.window

-----------------------------------------------------------------------------
(* Claims about PrintLogicController, under SpecSave *)

SaveRan == save.call # "none"

\* the positions of the trace at which a trigger file was touched
TouchesOf(trace) == {k \in 1..Len(trace) : trace[k][1] = "touch"}

\* before position k the output file was opened, both lines were written in order and
\* the file was closed, and it was not opened again
WrittenBefore(trace, k, first, second) ==
    \E a \in 1..Len(trace) :
        /\ a + 3 < k
        /\ trace[a] = <<"open">>
        /\ trace[a + 1] = <<"write", first>>
        /\ trace[a + 2] = <<"write", second>>
        /\ trace[a + 3] = <<"close">>
        /\ \A b \in (a + 4)..k : trace[b] # <<"open">>

\* the call could not write the whole file or had no trigger directory
SaveFailedEarly ==
    \/ save.raw_output \in {NoneVal, <<>>}
    \/ save.fault.at \in {"open", "first", "second"}
    \/ save.raw_path \in {NoneVal, <<>>}
    \/ ~save.before.trigger_dir

\* C26: in each of the three save-and-print methods a trigger file is touched only
\* after the output file was completely written (header line, then record line) in
\* the same call; when the output path is missing, a write raises, or the trigger
\* directory is undefined or absent, the call creates no trigger file
TriggerOnlyAfterWrittenOutput ==
    SaveRan =>
        /\ \A k \in TouchesOf(save.trace) :
               /\ WrittenBefore(save.trace, k, save.first, save.second)
               /\ disk.output = save.first \o <<10>> \o save.second \o <<10>>
        /\ SaveFailedEarly =>
               /\ TouchesOf(save.trace) = {}
               /\ disk.triggers = save.before.triggers

\* a product call that wrote the file and then touched two new trigger files
TriggerOnlyAfterWrittenOutputWitness ==
    /\ save.call = "product_save_and_print"
    /\ Cardinality(TouchesOf(save.trace)) = 2
    /\ save.before.triggers = {}
    /\ disk.triggers = TriggerNames
    /\ disk.output = SaveHeader \o <<10>> \o SaveRecord \o <<10>>

====
